---- MODULE Spec2Model ----
(***************************************************************************)
(* SPRAXXX Pantry: the inbound request pipeline of the Express server.     *)
(*                                                                         *)
(* One request runs synchronously through the middleware chain installed   *)
(* by SpraxXXXPantry.setupMiddleware: ethical validation, nonprofit        *)
(* verification, transparency logging (no state), bot detection            *)
(* (BotDetectionEngine.analyzeTraffic) and commercial protection           *)
(* (CommercialProtection.monitorUsage), and then reaches the route.        *)
(* Node runs one handler at a time, so one request is one step.            *)
(*                                                                         *)
(* Strings are modelled by the table patterns that occur in them (Occurs); *)
(* String.includes(p) is membership of p in that set.  An absent header is *)
(* the empty string, which is how the code reads it (x || '', !x).         *)
(* Indicator lists are modelled as sets of <<kind, pattern>> pairs.        *)
(*                                                                         *)
(* The CharitableAllocation (registry of nonprofits, queue of projects) is *)
(* reached by the routes of the server and, in AllocSpec, called directly. *)
(* Its async methods hold no await: a call runs to its end in one step.    *)
(***************************************************************************)
EXTENDS Integers, FiniteSets, Sequences, TLC

VARIABLES
    now,              \* Date.now() of the latest request, in milliseconds
    handled,          \* number of requests handled so far
    botActivity,      \* BotDetectionEngine.suspiciousActivity : ip -> {requests, lastSeen}
    cpActivity,       \* CommercialProtection.suspiciousActivity : ip -> record
    blockedEntities,  \* CommercialProtection.blockedEntities
    hist,             \* per source: what its earlier requests were and how they were treated
    last,             \* the latest request and what the pipeline did with it
    nonprofitRegistry,  \* CharitableAllocation.nonprofitRegistry : id -> registration
    projectQueue,       \* CharitableAllocation.projectQueue : sequence of projects
    allocOps,           \* number of calls made on the CharitableAllocation so far
    submitted,          \* per project id: the priority calculated when it was submitted
    allocLast,          \* the latest call on the CharitableAllocation and its result
    config,             \* the charitable configuration the server is built from
    server,             \* "constructing", "listening" or "exited"
    violationReports,   \* CommercialProtection.violationReports : id -> report
    reportLast,         \* the latest call of reportViolation and its result
    sanitizeCall        \* the latest call of sanitizeForTransparency and its result

pipelineVars == <<now, handled, botActivity, cpActivity, blockedEntities, hist, last>>

allocVars == <<nonprofitRegistry, projectQueue, allocOps, submitted, allocLast>>

serverVars == <<config, server>>

reportVars == <<violationReports, reportLast>>

vars == <<now, handled, botActivity, cpActivity, blockedEntities, hist, last,
          nonprofitRegistry, projectQueue, allocOps, submitted, allocLast,
          config, server, violationReports, reportLast, sanitizeCall>>

----------------------------------------------------------------------------
(* Bounds *)

MaxRequests == 2         \* requests handled in a run of Spec
MaxCurlRequests == 4     \* requests handled in a run of CurlSpec
MaxScore == 12           \* scores the ratio rule is tabulated for
MaxSweepRequests == 4    \* requests handled in a run of SweepSpec
MaxAllocOps == 5         \* calls on the CharitableAllocation in a run of AllocSpec
MaxFilterRequests == 2   \* requests handled in a run of FilterSpec
MaxReportRequests == 2   \* requests handled in a run of ReportSpec
MaxProtectionOps == 4    \* requests and reports in a run of ProtectionSpec
MaxVerifyRequests == 2   \* requests verified in a run of VerifySpec
MaxCredentialRequests == 2   \* requests handled in a run of CredentialSpec
MaxCodeAllocOps == 4     \* calls on the CharitableAllocation in a run of CodeAllocSpec

----------------------------------------------------------------------------
(* Time *)

StartTime == 1000000            \* Date.now() at construction: far from the epoch
RapidWindow == 1000             \* "less than 1 second between requests"
IdleTTL == 86400000             \* 24 * 60 * 60 * 1000

\* Time between two requests: half a second, exactly a second, more than a day.
Deltas == {500, 1000, 86401000}

----------------------------------------------------------------------------
(* Strings of the sample requests and the patterns that occur in them *)

\* The JSON body of the registration of INSTALL.md.
REGISTRATION_BODY ==
    "{organizationName, missionStatement, nonprofitStatus: 501c3, documentation: {501c3_determination_letter}, contactInformation, publicBenefitDescription, transparencyCommitment: true}"
\* The JSON body of a community violation report.
REPORT_BODY ==
    "{description: Capacity donated to charity is being resold, evidence: [access log], suspectedEntity: {ip: 10.0.0.2}, anonymous: true}"

\* The JSON body of a project submission by the demonstration nonprofit.
PROJECT_BODY ==
    "{nonprofitId: NPR-DEMO-001, projectName: Literacy, description: Reading tutoring for children, publicBenefitGoals: education}"

\* The patterns of the rule tables that occur in the lower-cased string s.
Occurs(s) ==
    CASE s = "curl/7.0"          -> {"curl"}
      [] s = "Mozilla/5.0 ... Chrome/119"        -> {"mozilla", "chrome"}
      [] s = "Mozilla/5.0 (compatible; Googlebot/2.1)"     -> {"mozilla", "googlebot"}
      [] s = "Pingdom.com_bot_version_1.4"       -> {"pingdom", ".com"}
      [] s = "Mozilla/5.0 HeadlessChrome/119 Puppeteer"     -> {"mozilla", "chrome", "headlesschrome", "puppeteer"}
      [] s = "Mozilla/5.0 (charitable-purpose)"    -> {"mozilla"}
      [] s = "/nonprofit/register"    -> {"nonprofit", "profit"}
      [] s = REGISTRATION_BODY -> {"nonprofit", "profit"}
      [] s = "/report-violation"      -> {"violation"}
      [] s = REPORT_BODY      -> {"charity"}
      [] s = PROJECT_BODY     -> {"education", "nonprofit", "profit"}
      [] s = "password"       -> {"password"}
      [] s = "apiKey"         -> {"key"}
      [] s = "x-nonprofit-id" -> {"nonprofit", "profit"}
      [] s = "x-nonprofit-token" -> {"nonprofit", "profit"}
      [] s = "https://example.com/"          -> {".com"}
      [] s = "https://sales.example.org/"    -> {"sales"}
      [] s = "https://sales.example.com/"    -> {"sales", ".com"}
      [] s = "https://market-sales.org/" -> {"market", "sales"}
      [] s = "reselling"      -> {"resell", "sell"}
      [] s = "*/*"            -> {"*/*"}
      [] s = "/apidocs"       -> {"api"}
      [] s = "/api/data"      -> {"api", "/api/"}
      [] OTHER                -> {}

Includes(s, p) == p \in Occurs(s)

StartsWith(s, p) ==
    CASE p = "/api/"   -> s = "/api/data"
      [] p = "/admin/" -> s = "/admin/users"
      [] p = "NPT-NPR-DEMO-001-" -> s \in {"NPT-NPR-DEMO-001-1730000000000-abcdefghijklmnop", "NPT-NPR-DEMO-001-1"}
      [] p = "NPT-NPR-DEMO-002-" -> s = "NPT-NPR-DEMO-002-1730000000000-abcdefghijklmnop"
      [] OTHER         -> s = p

\* token.length
Length(s) ==
    CASE s = "NPT-NPR-DEMO-001-1730000000000-abcdefghijklmnop"       -> 47
      [] s = "NPT-NPR-DEMO-001-1" -> 18
      [] s = "NPT-NPR-DEMO-002-1730000000000-abcdefghijklmnop"       -> 47
      [] s = "TOKEN-NPR-DEMO-001-1730000000000-abcdefghijklmnop"    -> 49
      [] OTHER             -> 0

----------------------------------------------------------------------------
(* Requests *)

IPs == {"10.0.0.1", "10.0.0.2", "10.0.0.3"}

Req(ip, ua, accept, lang, referer, method, path, purpose) ==
    [ip |-> ip, ua |-> ua, accept |-> accept, lang |-> lang, referer |-> referer,
     method |-> method, path |-> path, purpose |-> purpose, body |-> "", org |-> "",
     nonprofitId |-> "", nonprofitToken |-> ""]

\* A browser, with every combination of the headers the classifier reads.
BrowserRequests ==
    { Req("10.0.0.1", "Mozilla/5.0 ... Chrome/119", a, l, r, m, "/", "") :
        a \in {"", "text/html"}, l \in {"", "en-US"},
        r \in {"", "https://example.org/"}, m \in {"GET", "POST"} }

\* A browser that comes from pages whose address carries commercial indicators.
ReferredRequests ==
    { Req("10.0.0.1", "Mozilla/5.0 ... Chrome/119", "text/html", "en-US", r, "GET", "/", "") :
        r \in {"https://example.com/", "https://sales.example.org/", "https://sales.example.com/", "https://market-sales.org/"} }
    \cup
    { Req("10.0.0.1", "Mozilla/5.0 ... Chrome/119", "text/html", "en-US", r, "POST", "/apidocs", "") :
        r \in {"https://example.com/", "https://sales.example.org/", "https://sales.example.com/", "https://market-sales.org/"} }

\* Search crawlers and monitoring services.
CrawlerRequests ==
    { Req("10.0.0.1", ua, "text/html", l, r, "GET", "/", "") :
        ua \in {"Mozilla/5.0 (compatible; Googlebot/2.1)", "Pingdom.com_bot_version_1.4"}, l \in {"", "en-US"},
        r \in {"", "https://sales.example.org/"} }

\* Command line and automation tools, with or without an X-Purpose header.
ToolRequests ==
    { Req("10.0.0.1", ua, "*/*", "", "", "GET", "/", x) :
        ua \in {"", "curl/7.0", "Mozilla/5.0 HeadlessChrome/119 Puppeteer"}, x \in {"", "reselling"} }

\* A request to a protected endpoint without nonprofit credentials.
ApiRequests ==
    { Req("10.0.0.1", "Mozilla/5.0 ... Chrome/119", "text/html", "en-US", "https://example.org/", "POST", "/api/data", "") }

\* A second source.
OtherRequests ==
    { Req("10.0.0.2", "Mozilla/5.0 ... Chrome/119", "text/html", "en-US", "https://example.org/", "GET", "/", ""),
      Req("10.0.0.2", "Mozilla/5.0 ... Chrome/119", "text/html", "en-US", "https://market-sales.org/", "GET", "/", ""),
      Req("10.0.0.2", "Mozilla/5.0 (compatible; Googlebot/2.1)", "text/html", "", "", "GET", "/", ""),
      Req("10.0.0.2", "curl/7.0", "*/*", "", "", "GET", "/", "") }

\* Requests without a User-Agent: with no header at all, and with every other header.
BareRequests ==
    { Req("10.0.0.1", "", "", "", "", "GET", "/", ""),
      Req("10.0.0.1", "", "text/html", "en-US", "https://example.org/", "GET", "/", "") }

\* The registration request of INSTALL.md, as curl sends it, without and with an
\* X-Organization-Name header.
RegisterRequests ==
    { [Req("10.0.0.1", "Mozilla/5.0 (charitable-purpose)", "*/*", "", "", "POST", "/nonprofit/register", "")
          EXCEPT !.body = REGISTRATION_BODY, !.org = o] : o \in {"", "Helping Hands Foundation"} }

\* One browser request of each source.
SweepRequests ==
    { Req(ip, "Mozilla/5.0 ... Chrome/119", "text/html", "en-US", "https://example.org/", "GET", "/", "") : ip \in IPs }

\* The requests of the reselling scenario: curl/7.0 with and without X-Purpose.
CurlRequests ==
    { r \in ToolRequests \cup OtherRequests : r.ua = "curl/7.0" }

\* A community violation report sent from a browser, with and without a body.
ReportRequests ==
    { [Req(ip, "Mozilla/5.0 ... Chrome/119", "text/html", "en-US", "https://example.org/", "POST", "/report-violation", "")
          EXCEPT !.body = b] : ip \in {"10.0.0.1", "10.0.0.3"}, b \in {"", REPORT_BODY} }

\* Requests to protected endpoints with every combination of the credentials
\* X-Nonprofit-ID, X-Organization-Name and X-Nonprofit-Token.
CredentialRequests ==
    { [Req("10.0.0.1", "Mozilla/5.0 (charitable-purpose)", "*/*", "", "", m, path, "")
          EXCEPT !.nonprofitId = i, !.org = o, !.nonprofitToken = k] :
        m \in {"GET", "POST"}, path \in {"/projects/submit", "/admin/users", "/api/data"},
        i \in {"", "NPR-DEMO-001", "NPR-DEMO-002", "NPR-0000-000"},
        o \in {"", "Demo", "Foundation", "Helping Hands Foundation"},
        k \in {"", "NPT-NPR-DEMO-001-1730000000000-abcdefghijklmnop", "NPT-NPR-DEMO-001-1", "NPT-NPR-DEMO-002-1730000000000-abcdefghijklmnop", "TOKEN-NPR-DEMO-001-1730000000000-abcdefghijklmnop"} }

\* Project submissions of the demonstration nonprofit, without and with a body.
SubmitRequests ==
    { [r EXCEPT !.body = b] :
        r \in { c \in CredentialRequests :
                   c.method = "POST" /\ c.path = "/projects/submit" /\ c.org \in {"", "Demo"} },
        b \in {"", PROJECT_BODY} }

Requests ==
    BrowserRequests \cup ReferredRequests \cup CrawlerRequests \cup ToolRequests
        \cup ApiRequests \cup OtherRequests \cup BareRequests \cup SweepRequests
        \cup RegisterRequests

\* Every request of the model.
ModelRequests == Requests \cup ReportRequests \cup CredentialRequests \cup SubmitRequests

NoRequest == Req("", "", "", "", "", "", "", "")

----------------------------------------------------------------------------
(* Ethical validation middleware *)

commercialKeywords ==
    {"monetize", "profit", "revenue", "commercial", "sell", "pricing",
     "subscription", "billing", "payment", "enterprise", "business"}

commercialTools ==
    {"postman-runtime", "insomnia", "business-scraper",
     "commercial-bot", "enterprise-api", "profit-tool"}

commercialDomains ==
    {"profit.com", "business.com", "commercial.com", "enterprise.net", "monetize.org"}

charitableKeywords ==
    {"nonprofit", "charity", "humanitarian", "public-benefit",
     "education", "health", "environment", "research", "social-good"}

suspiciousPatterns ==
    {"hack", "exploit", "bypass", "circumvent", "manipulate",
     "unauthorized", "illegal", "violation", "abuse"}

\* JSON.stringify({url, headers, body, query}).toLowerCase(): what occurs in it is
\* what occurs in one of its strings.  The values of the headers are in it and
\* their names too; of the names, only x-nonprofit-id and x-nonprofit-token hold
\* a pattern.
requestText(req) ==
    Occurs(req.path) \cup Occurs(req.ua) \cup Occurs(req.accept) \cup Occurs(req.lang)
        \cup Occurs(req.referer) \cup Occurs(req.purpose) \cup Occurs(req.body)
        \cup Occurs(req.org) \cup Occurs(req.nonprofitId) \cup Occurs(req.nonprofitToken)
        \cup (IF req.nonprofitId # "" THEN Occurs("x-nonprofit-id") ELSE {})
        \cup (IF req.nonprofitToken # "" THEN Occurs("x-nonprofit-token") ELSE {})

validateEthicalUsage_SkipsHeaders(req) ==
    IF commercialKeywords \cap (Occurs(req.path) \cup Occurs(req.body)) # {} THEN 403
    ELSE IF commercialTools \cap Occurs(req.ua) # {} THEN 403
    ELSE IF commercialDomains \cap Occurs(req.referer) # {} THEN 403
    ELSE IF /\ req.method = "POST"
            /\ charitableKeywords \cap requestText(req) = {}
            /\ req.body # ""
         THEN 400
    ELSE IF suspiciousPatterns \cap requestText(req) # {} THEN 403
    ELSE 0

\* The HTTP status validateEthicalUsage rejects the request with, 0 when it is valid.
validateEthicalUsage(req) ==
    IF commercialKeywords \cap requestText(req) # {} THEN 403
    ELSE IF commercialTools \cap Occurs(req.ua) # {} THEN 403
    ELSE IF commercialDomains \cap Occurs(req.referer) # {} THEN 403
    ELSE IF /\ req.method = "POST"
            /\ charitableKeywords \cap requestText(req) = {}
            /\ req.body # ""
         THEN 400
    ELSE IF suspiciousPatterns \cap requestText(req) # {} THEN 403
    ELSE 0

----------------------------------------------------------------------------
(* Nonprofit verification middleware *)

publicEndpoints == {"/", "/transparency", "/impact", "/governance", "/health"}

protectedEndpoints ==
    {"/nonprofit/register", "/projects/submit", "/resources/allocate", "/api/", "/admin/"}

\* knownNonprofits of simulateNonprofitLookup, in the order of the Map.
knownNonprofits ==
    << [id |-> "NPR-DEMO-001", name |-> "Demo Charitable Organization", status |-> "verified"],
       [id |-> "NPR-DEMO-002", name |-> "Example Nonprofit Foundation", status |-> "pending_review"] >>

\* org.name.toLowerCase().includes(organizationName.toLowerCase())
NameIncludes(name, organizationName) ==
    CASE organizationName = "Demo"       -> name = "Demo Charitable Organization"
      [] organizationName = "Foundation" -> name = "Example Nonprofit Foundation"
      [] OTHER                           -> name = organizationName

NotFound == [found |-> FALSE, id |-> "", name |-> "", status |-> ""]

\* Look up by ID first, then by name: the first organization whose name holds it.
simulateNonprofitLookup(nonprofitId, organizationName) ==
    IF nonprofitId # "" /\ \E i \in DOMAIN knownNonprofits : knownNonprofits[i].id = nonprofitId
    THEN [found |-> TRUE] @@
         knownNonprofits[CHOOSE i \in DOMAIN knownNonprofits :
                            knownNonprofits[i].id = nonprofitId]
    ELSE IF /\ organizationName # ""
            /\ \E i \in DOMAIN knownNonprofits :
                  NameIncludes(knownNonprofits[i].name, organizationName)
    THEN [found |-> TRUE] @@
         knownNonprofits[CHOOSE i \in DOMAIN knownNonprofits :
                            /\ NameIncludes(knownNonprofits[i].name, organizationName)
                            /\ \A j \in 1..(i - 1) :
                                  ~NameIncludes(knownNonprofits[j].name, organizationName)]
    ELSE NotFound

MinTokenLength == 32

\* `NPT-${verificationResult.id}-`
expectedTokenPrefix(id) ==
    CASE id = "NPR-DEMO-001" -> "NPT-NPR-DEMO-001-"
      [] id = "NPR-DEMO-002" -> "NPT-NPR-DEMO-002-"
      [] OTHER             -> "NPT--"

validateNonprofitToken(token, verificationResult) ==
    /\ StartsWith(token, expectedTokenPrefix(verificationResult.id))
    /\ Length(token) >= MinTokenLength

\* req.nonprofit is not set.
NoNonprofit == [verified |-> FALSE, organizationId |-> ""]

\* What performNonprofitVerification returns: statusCode is 0 when verified.
performNonprofitVerification(req) ==
    LET verificationResult == simulateNonprofitLookup(req.nonprofitId, req.org)
    IN  IF req.nonprofitId = "" /\ req.org = ""
        THEN [verified |-> FALSE, statusCode |-> 401, organizationId |-> ""]
        ELSE IF req.path = "/nonprofit/register"
        THEN [verified |-> TRUE, statusCode |-> 0, organizationId |-> "REGISTRATION_PENDING"]
        ELSE IF ~verificationResult.found
        THEN [verified |-> FALSE, statusCode |-> 403, organizationId |-> ""]
        ELSE IF verificationResult.status # "verified"
        THEN [verified |-> FALSE, statusCode |-> 403, organizationId |-> ""]
        ELSE IF \/ req.nonprofitToken = ""
                \/ ~validateNonprofitToken(req.nonprofitToken, verificationResult)
        THEN [verified |-> FALSE, statusCode |-> 401, organizationId |-> ""]
        ELSE [verified |-> TRUE, statusCode |-> 0, organizationId |-> verificationResult.id]

\* TRUE when the middleware calls next() without performing the verification.
SkipsVerification(req) ==
    \/ req.path \in publicEndpoints
    \/ req.method = "GET" /\ ~Includes(req.path, "/api/")
    \/ ~(\E e \in protectedEndpoints : StartsWith(req.path, e))

\* The HTTP status the middleware rejects the request with, 0 when it calls next().
nonprofitVerification(req) ==
    IF SkipsVerification(req) THEN 0
    ELSE performNonprofitVerification(req).statusCode

\* req.nonprofit when the middleware calls next().
NonprofitContext(req) ==
    IF SkipsVerification(req) \/ ~performNonprofitVerification(req).verified
    THEN NoNonprofit
    ELSE [verified |-> TRUE,
          organizationId |-> performNonprofitVerification(req).organizationId]


\* The status each middleware answers each request of the model with.
ethicalStatus == [r \in ModelRequests |-> validateEthicalUsage(r)]

nonprofitStatus == [r \in ModelRequests |-> nonprofitVerification(r)]

nonprofitContexts == [r \in ModelRequests |-> NonprofitContext(r)]

----------------------------------------------------------------------------
(* The charitable configuration *)

\* The settings of the configuration that validateCharitableConfig and the
\* components read: restrictions.*, system.governance.transparentDecisions,
\* auditing.publicDashboard, nonprofitVerification.required,
\* communityProtection.violationReporting.enabled and
\* system.botDetection.ethicalFiltering.  FALSE stands for every value that is not
\* the boolean true.
charitableConfig ==
    [commercialUse |-> FALSE, monetization |-> FALSE, privateBenefit |-> FALSE,
     competitiveAdvantage |-> FALSE, profitGeneration |-> FALSE, charitableOnly |-> TRUE,
     transparentDecisions |-> TRUE, publicDashboard |-> TRUE, required |-> TRUE,
     violationReporting |-> TRUE, ethicalFiltering |-> TRUE]

\* Every configuration an operator can write over these settings.
Configs == [DOMAIN charitableConfig -> BOOLEAN]

requiredFeatures == {"transparentDecisions", "publicDashboard", "required", "violationReporting"}

\* The violations validateCharitableConfig collects; it throws an Error that lists
\* them when there is one, and returns true when there is none.
validateCharitableConfig(c) ==
    (IF c.commercialUse THEN {<<"prohibited", "commercialUse">>} ELSE {})
    \cup (IF c.monetization THEN {<<"prohibited", "monetization">>} ELSE {})
    \cup (IF ~c.charitableOnly THEN {<<"required", "charitableOnly">>} ELSE {})
    \cup { <<"missing", f>> : f \in { g \in requiredFeatures : ~c[g] } }

Constructing == [state |-> "constructing", violations |-> {}]

Listening == [state |-> "listening", violations |-> {}]

\* validateCharitableSetup in the constructor: process.exit(1) when the validation
\* throws; otherwise the construction goes on and the server listens.
ValidateCharitableSetup ==
    /\ server.state = "constructing"
    /\ server' = IF validateCharitableConfig(config) = {}
                 THEN Listening
                 ELSE [state |-> "exited", violations |-> validateCharitableConfig(config)]
    /\ UNCHANGED config

----------------------------------------------------------------------------
(* BotDetectionEngine *)

\* this.config.system.botDetection.ethicalFiltering
ethicalFiltering == config.ethicalFiltering

botPatterns ==
    {"googlebot", "bingbot", "slurp", "duckduckbot", "baiduspider",
     "yandexbot", "facebookexternalhit", "twitterbot", "linkedinbot",
     "curl", "wget", "python-requests", "node-fetch", "axios",
     "postman", "insomnia", "httpie",
     "scrapy", "selenium", "phantomjs", "headlesschrome",
     "puppeteer", "playwright", "mechanize",
     "pingdom", "uptimerobot", "newrelic", "nagios",
     "jenkins", "circleci", "github-actions"}

humanPatterns == {"mozilla", "chrome", "firefox", "safari", "edge", "opera"}

legitimateCrawlers == {"googlebot", "bingbot", "slurp", "duckduckbot"}

monitoringServices == {"pingdom", "uptimerobot", "newrelic"}

\* this.suspiciousActivity.get(ip) || { requests: 0, lastSeen: 0 }
ActivityOf(activity, ip) ==
    IF ip \in DOMAIN activity THEN activity[ip] ELSE [requests |-> 0, lastSeen |-> 0]

\* "Less than 1 second between requests"
RapidRequest(ipActivity, t) == t - ipActivity.lastSeen < RapidWindow

\* A ratio num/den of two scores; 0.5 when there is no signal.
Confidence(botScore, humanScore) ==
    IF botScore + humanScore > 0
    THEN [num |-> botScore, den |-> botScore + humanScore]
    ELSE [num |-> 1, den |-> 2]

\* confidence > n/d
Above(confidence, n, d) == confidence.num * d > n * confidence.den

IsBot_HalfThreshold(botScore, humanScore) ==
    Above(Confidence(botScore, humanScore), 5, 10)

IsBot_AtLeast(botScore, humanScore) ==
    ~Above([num |-> 6, den |-> 10],
           Confidence(botScore, humanScore).num, Confidence(botScore, humanScore).den)

IsBot(botScore, humanScore) == Above(Confidence(botScore, humanScore), 6, 10)

\* The indicators and scores of a request; rapid tells whether it comes less
\* than a second after the previous request of its source.
BotIndicators(req, rapid) ==
    { <<"bot_pattern", p>> : p \in botPatterns \cap Occurs(req.ua) }
    \cup { <<"human_pattern", p>> : p \in humanPatterns \cap Occurs(req.ua) }
    \cup (IF req.accept = "" \/ Includes(req.accept, "*/*")
          THEN {<<"flag", "generic_accept_header">>} ELSE {})
    \cup (IF req.lang = "" THEN {<<"flag", "missing_accept_language">>} ELSE {})
    \cup (IF req.referer = "" /\ req.method = "GET"
          THEN {<<"flag", "missing_referer">>} ELSE {})
    \cup (IF rapid THEN {<<"flag", "rapid_requests">>} ELSE {})

BotScore_IgnoresAbsentHeaders(req, rapid) ==
    3 * Cardinality(botPatterns \cap Occurs(req.ua))
    + (IF Includes(req.accept, "*/*") THEN 1 ELSE 0)
    + (IF rapid THEN 2 ELSE 0)

BotScore(req, rapid) ==
    3 * Cardinality(botPatterns \cap Occurs(req.ua))
    + (IF req.accept = "" \/ Includes(req.accept, "*/*") THEN 1 ELSE 0)
    + (IF req.lang = "" THEN 1 ELSE 0)
    + (IF req.referer = "" /\ req.method = "GET" THEN 1 ELSE 0)
    + (IF rapid THEN 2 ELSE 0)

HumanScore(req) == 2 * Cardinality(humanPatterns \cap Occurs(req.ua))

TrafficAnalysis(req, rapid) ==
    [isBot |-> IsBot(BotScore(req, rapid), HumanScore(req)),
     confidence |-> Confidence(BotScore(req, rapid), HumanScore(req)),
     botScore |-> BotScore(req, rapid),
     humanScore |-> HumanScore(req),
     indicators |-> BotIndicators(req, rapid)]

\* TrafficAnalysis of every request of the model.
trafficAnalyses ==
    [r \in ModelRequests |-> [rapid \in BOOLEAN |-> TrafficAnalysis(r, rapid)]]

\* The activity map after cleanOldActivity at time t.
cleanOldActivity_EvictsAtTTL(activity, t) ==
    [ip \in { i \in DOMAIN activity : ~(activity[i].lastSeen <= t - IdleTTL) } |-> activity[ip]]

cleanOldActivity(activity, t) ==
    [ip \in { i \in DOMAIN activity : ~(activity[i].lastSeen < t - IdleTTL) } |-> activity[ip]]

RecordRequest_LosesUpdate(activity, ip, t) ==
    [i \in DOMAIN activity \cup {ip} |->
        IF i = ip THEN [requests |-> 1, lastSeen |-> t] ELSE activity[i]]

RecordRequest_KeepsLastSeen(activity, ip, t) ==
    [i \in DOMAIN activity \cup {ip} |->
        IF i = ip
        THEN [requests |-> ActivityOf(activity, ip).requests + 1,
              lastSeen |-> ActivityOf(activity, ip).lastSeen]
        ELSE activity[i]]

\* ipActivity.requests++; ipActivity.lastSeen = now; this.suspiciousActivity.set(ip, ...)
RecordRequest(activity, ip, t) ==
    [i \in DOMAIN activity \cup {ip} |->
        IF i = ip
        THEN [requests |-> ActivityOf(activity, ip).requests + 1, lastSeen |-> t]
        ELSE activity[i]]

\* The analysis performTrafficAnalysis returns at time t, and the activity map it
\* leaves; clean is the outcome of Math.random() < 0.01.
performTrafficAnalysis(req, activity, t, clean) ==
    [analysis |-> trafficAnalyses[req][RapidRequest(ActivityOf(activity, req.ip), t)],
     activity |-> IF clean
                  THEN cleanOldActivity(RecordRequest(activity, req.ip, t), t)
                  ELSE RecordRequest(activity, req.ip, t)]

shouldRedirect_NoMonitoringAllowlist(analysis, req) ==
    IF ~ethicalFiltering THEN analysis.isBot
    ELSE IF legitimateCrawlers \cap Occurs(req.ua) # {} THEN FALSE
    ELSE analysis.isBot /\ Above(analysis.confidence, 7, 10)

shouldRedirect_AlwaysFilters(analysis, req) ==
    IF legitimateCrawlers \cap Occurs(req.ua) # {} THEN FALSE
    ELSE IF monitoringServices \cap Occurs(req.ua) # {} THEN FALSE
    ELSE analysis.isBot /\ Above(analysis.confidence, 7, 10)

shouldRedirect(analysis, req) ==
    IF ~ethicalFiltering THEN analysis.isBot
    ELSE IF legitimateCrawlers \cap Occurs(req.ua) # {} THEN FALSE
    ELSE IF monitoringServices \cap Occurs(req.ua) # {} THEN FALSE
    ELSE analysis.isBot /\ Above(analysis.confidence, 7, 10)

analyzeTraffic_RedirectsEveryBot(analysis, req) == analysis.isBot

\* TRUE when analyzeTraffic answers with the redirection, FALSE when it calls next().
analyzeTraffic(analysis, req) == analysis.isBot /\ shouldRedirect(analysis, req)

----------------------------------------------------------------------------
(* CommercialProtection *)

commercialIndicators ==
    {"profit", "revenue", "sales", "commercial", "business", "enterprise",
     "monetize", "pricing", "subscription", "payment", "billing",
     "corporate", "company", "inc", "llc", "ltd", "corp",
     "competitive", "advantage", "market", "customer", "client",
     "proprietary", "exclusive", "licensing", "resell",
     "exploit", "leverage", "maximize", "optimize", "scale",
     "automation", "efficiency", "productivity"}

businessDomains == {".com", ".biz", ".corp", ".enterprise"}

automationTools == {"selenium", "puppeteer", "playwright", "cypress"}

SuspiciousThreshold == 4
ViolationThreshold == 6
MonitoringThreshold == 2

\* previouslyBlocked: this.blockedEntities.has(ip)
CommercialIndicators(req, previouslyBlocked) ==
    { <<"user_agent", i>> : i \in commercialIndicators \cap Occurs(req.ua) }
    \cup (IF req.referer # ""
          THEN { <<"referer", i>> : i \in commercialIndicators \cap Occurs(req.referer) }
          ELSE {})
    \cup (IF req.referer # "" /\ businessDomains \cap Occurs(req.referer) # {}
          THEN {<<"flag", "business_domain_referer">>} ELSE {})
    \cup (IF req.method = "POST" /\ Includes(req.path, "api")
          THEN {<<"flag", "api_usage_pattern">>} ELSE {})
    \cup (IF automationTools \cap Occurs(req.ua) # {}
          THEN {<<"flag", "automation_tool">>} ELSE {})
    \cup (IF previouslyBlocked THEN {<<"flag", "previously_blocked">>} ELSE {})

CommercialScore(req, previouslyBlocked) ==
    2 * Cardinality(commercialIndicators \cap Occurs(req.ua))
    + (IF req.referer # ""
       THEN 3 * Cardinality(commercialIndicators \cap Occurs(req.referer))
       ELSE 0)
    + (IF req.referer # "" /\ businessDomains \cap Occurs(req.referer) # {} THEN 1 ELSE 0)
    + (IF req.method = "POST" /\ Includes(req.path, "api") THEN 1 ELSE 0)
    + (IF automationTools \cap Occurs(req.ua) # {} THEN 2 ELSE 0)
    + (IF previouslyBlocked THEN 5 ELSE 0)

RequestAnalysis_StrictThreshold(req, previouslyBlocked) ==
    [ip |-> req.ip,
     commercialScore |-> CommercialScore(req, previouslyBlocked),
     indicators |-> CommercialIndicators(req, previouslyBlocked),
     suspiciousCommercial |-> CommercialScore(req, previouslyBlocked) > SuspiciousThreshold,
     violatesLicense |-> CommercialScore(req, previouslyBlocked) > ViolationThreshold,
     requiresMonitoring |-> CommercialScore(req, previouslyBlocked) > MonitoringThreshold]

RequestAnalysis(req, previouslyBlocked) ==
    [ip |-> req.ip,
     commercialScore |-> CommercialScore(req, previouslyBlocked),
     indicators |-> CommercialIndicators(req, previouslyBlocked),
     suspiciousCommercial |-> CommercialScore(req, previouslyBlocked) >= SuspiciousThreshold,
     violatesLicense |-> CommercialScore(req, previouslyBlocked) >= ViolationThreshold,
     requiresMonitoring |-> CommercialScore(req, previouslyBlocked) >= MonitoringThreshold]

\* RequestAnalysis of every request of the model.
requestAnalyses ==
    [r \in ModelRequests |-> [b \in BOOLEAN |-> RequestAnalysis(r, b)]]

analyzeRequest(req, blocked, t) ==
    [timestamp |-> t] @@ requestAnalyses[req][req.ip \in blocked]

\* The records of suspiciousActivity.  kind tells which object is stored:
\*   "analysis"    the analysis object handleSuspiciousActivity stored: it has no
\*                 requestCount and its indicators are an Array;
\*   "analysis_nan" the same object after logSuspiciousActivity incremented its
\*                 missing requestCount (NaN) and set lastSeen;
\*   "monitoring"  the record logSuspiciousActivity created: requestCount is a
\*                 number and indicators a Set;
\*   "investigation" the object autoInvestigate created from {}: it has neither
\*                 requestCount nor indicators;
\*   "investigation_nan" the same object after logSuspiciousActivity incremented
\*                 its missing requestCount (NaN) and set lastSeen.
\* violationReport (0: none) and enhanced_monitoring are what autoInvestigate
\* sets on the record it finds or creates.
AnalysisRecord(analysis) ==
    [kind |-> "analysis", commercialScore |-> analysis.commercialScore,
     indicators |-> analysis.indicators, timestamp |-> analysis.timestamp,
     requestCount |-> 0, firstSeen |-> 0, lastSeen |-> 0,
     violationReport |-> 0, enhanced_monitoring |-> FALSE]

FreshMonitoring(analysis) ==
    [kind |-> "monitoring", commercialScore |-> 0, indicators |-> {}, timestamp |-> 0,
     requestCount |-> 0, firstSeen |-> analysis.timestamp, lastSeen |-> 0,
     violationReport |-> 0, enhanced_monitoring |-> FALSE]

\* const existing = this.suspiciousActivity.get(ip) || {}
FreshInvestigation ==
    [kind |-> "investigation", commercialScore |-> 0, indicators |-> {}, timestamp |-> 0,
     requestCount |-> 0, firstSeen |-> 0, lastSeen |-> 0,
     violationReport |-> 0, enhanced_monitoring |-> FALSE]

Put(map, ip, record) ==
    [i \in DOMAIN map \cup {ip} |-> IF i = ip THEN record ELSE map[i]]

\* suspiciousActivity after handleSuspiciousActivity stored the analysis.  The
\* method then ends with this.next(), which CommercialProtection does not have.
handleSuspiciousActivity(analysis, activity) ==
    [activity |-> Put(activity, analysis.ip, AnalysisRecord(analysis)),
     threw |-> TRUE]

blockCommercialViolation(analysis, blocked) == blocked \cup {analysis.ip}

\* suspiciousActivity after logSuspiciousActivity, and whether it threw:
\* activity.indicators.add is no function when the stored record is an analysis,
\* and activity.indicators is undefined when autoInvestigate created the record.
logSuspiciousActivity(analysis, activity) ==
    LET existing == IF analysis.ip \in DOMAIN activity
                    THEN activity[analysis.ip] ELSE FreshMonitoring(analysis)
    IN  IF existing.kind = "monitoring"
        THEN [activity |->
                Put(activity, analysis.ip,
                    [existing EXCEPT !.requestCount = @ + 1,
                                     !.lastSeen = analysis.timestamp,
                                     !.indicators = @ \cup analysis.indicators]),
              threw |-> FALSE]
        ELSE [activity |->
                Put(activity, analysis.ip,
                    [existing EXCEPT !.kind = IF @ \in {"analysis", "analysis_nan"}
                                             THEN "analysis_nan"
                                             ELSE "investigation_nan",
                                     !.lastSeen = analysis.timestamp]),
              threw |-> analysis.indicators # {}]

\* What monitorUsage does with a request at time t: the analysis, the maps it
\* leaves, how it ends ("next", "blocked", "error" for an exception) and the
\* escalation level it applied to the request.
monitorUsage(req, activity, blocked, t) ==
    LET analysis == analyzeRequest(req, blocked, t)
    IN  IF analysis.suspiciousCommercial
        THEN LET h == handleSuspiciousActivity(analysis, activity)
             IN  [analysis |-> analysis, activity |-> h.activity, blocked |-> blocked,
                  ending |-> IF h.threw THEN "error" ELSE "next", level |-> "MONITORED"]
        ELSE IF analysis.violatesLicense
        THEN [analysis |-> analysis, activity |-> activity,
              blocked |-> blockCommercialViolation(analysis, blocked),
              ending |-> "blocked", level |-> "BLOCKED"]
        ELSE IF analysis.requiresMonitoring
        THEN LET l == logSuspiciousActivity(analysis, activity)
             IN  [analysis |-> analysis, activity |-> l.activity, blocked |-> blocked,
                  ending |-> IF l.threw THEN "error" ELSE "next", level |-> "CLEAN"]
        ELSE [analysis |-> analysis, activity |-> activity, blocked |-> blocked,
              ending |-> "next", level |-> "CLEAN"]

\* The data of a violation report: present is FALSE when no object is passed;
\* evidence is "" when it is absent or empty; suspectedEntity is "absent" when the
\* report names none, "unlocated" for an entity without ip, or the ip of the entity.
ReportData(present, evidence, suspectedEntity) ==
    [present |-> present, evidence |-> evidence, suspectedEntity |-> suspectedEntity]

NoReportData == ReportData(FALSE, "", "absent")

\* The report object reportViolation builds.
NewReport(id, data, t) ==
    [id |-> id, evidence |-> data.evidence, suspectedEntity |-> data.suspectedEntity,
     timestamp |-> t, status |-> "under_investigation", investigationStarted |-> 0]

\* autoInvestigate: the report it leaves, the suspiciousActivity it leaves and
\* whether it threw: report.suspectedEntity.ip is read of undefined when the
\* report names no entity.
autoInvestigate(report, activity, t) ==
    IF report.suspectedEntity = "absent"
    THEN [report |-> report, activity |-> activity, threw |-> TRUE]
    ELSE [report |-> [report EXCEPT !.status = "investigating",
                                    !.investigationStarted = t],
          activity |->
              IF report.suspectedEntity = "unlocated" THEN activity
              ELSE Put(activity, report.suspectedEntity,
                       [(IF report.suspectedEntity \in DOMAIN activity
                         THEN activity[report.suspectedEntity]
                         ELSE FreshInvestigation)
                          EXCEPT !.violationReport = report.id,
                                 !.enhanced_monitoring = TRUE]),
          threw |-> FALSE]

\* reportViolation(data) at time t with the generated id: the violationReports
\* and the suspiciousActivity it leaves, and whether it threw.  The report is
\* stored before autoInvestigate is called on it.
reportViolation(data, reports, activity, id, t) ==
    IF ~data.present
    THEN [reports |-> reports, activity |-> activity, threw |-> TRUE]
    ELSE IF data.evidence = ""
    THEN [reports |-> Put(reports, id, NewReport(id, data, t)),
          activity |-> activity, threw |-> FALSE]
    ELSE LET a == autoInvestigate(NewReport(id, data, t), activity, t)
         IN  [reports |-> Put(reports, id, a.report),
              activity |-> a.activity, threw |-> a.threw]

NoReportLast ==
    [calls |-> 0, id |-> 0, data |-> NoReportData, outcome |-> "none"]

\* What a call of reportViolation leaves in violationReports and reportLast.
ReportViolationCall(data, activity, t) ==
    LET id == reportLast.calls + 1
        r == reportViolation(data, violationReports, activity, id, t)
    IN  /\ violationReports' = r.reports
        /\ reportLast' = [calls |-> id, id |-> id, data |-> data,
                          outcome |-> IF r.threw THEN "error" ELSE "ok"]

\* reportViolation(data) called on the CommercialProtection.
ReportViolation(data) ==
    /\ ReportViolationCall(data, cpActivity, now)
    /\ cpActivity' =
          reportViolation(data, violationReports, cpActivity, reportLast.calls + 1, now).activity

----------------------------------------------------------------------------
(* CharitableAllocation *)

\* config.nonprofitVerification.documentationTypes
documentationTypes ==
    {"501c3_determination_letter", "charity_registration", "nonprofit_articles",
     "mission_statement", "financial_transparency"}

\* config.resourceAllocation.priorityFactors, in 300ths (a benefit keyword is worth
\* 0.4 / 6 = 20/300).  For every sum calculateProjectPriority can form, the doubles
\* are ordered and equal exactly as these rationals are.
PriorityUnit == 300
publicBenefitFactor == 120
nonprofitStatusFactor == 60
transparencyFactor == 60
communitySupportFactor == 30
impactPotentialFactor == 30
BenefitKeywordCount == 6

registrationRequired ==
    {"organizationName", "missionStatement", "nonprofitStatus", "documentation",
     "contactInformation", "publicBenefitDescription", "transparencyCommitment"}

projectRequired ==
    {"nonprofitId", "projectName", "description", "computationalRequirements",
     "publicBenefitGoals", "impactMeasurements", "transparencyPlan"}

\* Registration data: fields are the required fields with a truthy value,
\* documentation the key of the document supplied, commitment the value of
\* transparencyCommitment ("true" the boolean, "yes" a truthy string),
\* descriptionLength the length of publicBenefitDescription.
RegistrationData(fields, documentation, commitment, descriptionLength) ==
    [fields |-> fields, documentation |-> documentation, commitment |-> commitment,
     descriptionLength |-> descriptionLength]

WellFormedRegistration ==
    RegistrationData(registrationRequired, "501c3_determination_letter", "true", 100)

RegistrationInputs ==
    { WellFormedRegistration,
      RegistrationData(registrationRequired \ {"missionStatement"},
                       "501c3_determination_letter", "true", 100),
      RegistrationData(registrationRequired, "membership_card", "true", 100),
      RegistrationData(registrationRequired, "501c3_determination_letter", "yes", 100),
      RegistrationData(registrationRequired, "501c3_determination_letter", "true", 99) }

\* The message of the Error validateNonprofitRegistration throws, "" when it returns.
validateNonprofitRegistration(data) ==
    IF registrationRequired \ data.fields # {} THEN "Missing required fields"
    ELSE IF data.documentation \notin documentationTypes
    THEN "Valid nonprofit documentation required"
    ELSE IF data.commitment # "true" THEN "Transparency commitment required"
    ELSE IF data.descriptionLength < 100 THEN "Public benefit description must be detailed"
    ELSE ""

registerNonprofit_StoresVerified(registry, id, data, t) ==
    [i \in DOMAIN registry \cup {id} |->
        IF i = id
        THEN [status |-> "verified", submissionDate |-> t,
              documentation |-> data.documentation]
        ELSE registry[i]]

\* The registry after registerNonprofit stored the registration under id at time t.
registerNonprofit(registry, id, data, t) ==
    [i \in DOMAIN registry \cup {id} |->
        IF i = id
        THEN [status |-> "pending_verification", submissionDate |-> t,
              documentation |-> data.documentation]
        ELSE registry[i]]

\* Project data: fields are the required fields with a truthy value, goalsLength
\* the length of publicBenefitGoals, benefitMatches the number of benefit keywords
\* in it, the three flags of transparencyPlan, and urgent: the description holds
\* an urgency keyword.
ProjectData(nonprofitId, fields, goalsLength, benefitMatches, publicReporting, impactSharing, communityUpdates, urgent) ==
    [nonprofitId |-> nonprofitId, fields |-> fields, goalsLength |-> goalsLength,
     benefitMatches |-> benefitMatches, publicReporting |-> publicReporting,
     impactSharing |-> impactSharing, communityUpdates |-> communityUpdates,
     urgent |-> urgent]

\* The projects a nonprofit submits: four that are well-formed, with priorities
\* 0.85, 0.65, 0.65 and 0.35, and three that are not.
ProjectInputs(id) ==
    { ProjectData(id, projectRequired, 200, 6, TRUE, TRUE, TRUE, FALSE),
      ProjectData(id, projectRequired, 200, 3, TRUE, TRUE, TRUE, FALSE),
      ProjectData(id, projectRequired, 200, 6, TRUE, TRUE, FALSE, FALSE),
      ProjectData(id, projectRequired, 200, 0, TRUE, TRUE, FALSE, TRUE),
      ProjectData(id, projectRequired \ {"impactMeasurements"}, 200, 6, TRUE, TRUE, TRUE, FALSE),
      ProjectData(id, projectRequired, 199, 6, TRUE, TRUE, TRUE, FALSE),
      ProjectData(id, projectRequired, 200, 6, FALSE, TRUE, TRUE, FALSE) }

\* A well-formed project of a nonprofit that never registered.
UnregisteredProjects ==
    { ProjectData(0, projectRequired, 200, 6, TRUE, TRUE, TRUE, FALSE) }

Verified(registry, id) == id \in DOMAIN registry /\ registry[id].status = "verified"

validateProjectSubmission_SkipsVerification(data, registry) ==
    IF projectRequired \ data.fields # {} THEN "Missing required project fields"
    ELSE IF data.goalsLength < 200 THEN "Public benefit goals must be detailed"
    ELSE IF ~data.publicReporting \/ ~data.impactSharing
    THEN "Comprehensive transparency plan required"
    ELSE ""

\* The message of the Error validateProjectSubmission throws, "" when it returns.
validateProjectSubmission(data, registry) ==
    IF projectRequired \ data.fields # {} THEN "Missing required project fields"
    ELSE IF ~Verified(registry, data.nonprofitId)
    THEN "Project must be submitted by verified nonprofit organization"
    ELSE IF data.goalsLength < 200 THEN "Public benefit goals must be detailed"
    ELSE IF ~data.publicReporting \/ ~data.impactSharing
    THEN "Comprehensive transparency plan required"
    ELSE ""

Min(a, b) == IF a <= b THEN a ELSE b

calculateProjectPriority_NoCommunitySupport(data, registry) ==
    Min((data.benefitMatches * publicBenefitFactor) \div BenefitKeywordCount
          + (IF Verified(registry, data.nonprofitId) THEN nonprofitStatusFactor ELSE 0)
          + (IF data.publicReporting /\ data.impactSharing /\ data.communityUpdates
             THEN transparencyFactor ELSE 0)
          + (IF data.urgent THEN impactPotentialFactor ELSE 0),
        PriorityUnit)

calculateProjectPriority(data, registry) ==
    Min((data.benefitMatches * publicBenefitFactor) \div BenefitKeywordCount
          + (IF Verified(registry, data.nonprofitId) THEN nonprofitStatusFactor ELSE 0)
          + (IF data.publicReporting /\ data.impactSharing /\ data.communityUpdates
             THEN transparencyFactor ELSE 0)
          + communitySupportFactor \div 2
          + (IF data.urgent THEN impactPotentialFactor ELSE 0),
        PriorityUnit)

NewProject_PriorityUnset(id, data, registry, t) ==
    [id |-> id, nonprofitId |-> data.nonprofitId, status |-> "submitted",
     submissionDate |-> t, priority |-> 0]

\* The project object submitProject builds.
NewProject(id, data, registry, t) ==
    [id |-> id, nonprofitId |-> data.nonprofitId, status |-> "submitted",
     submissionDate |-> t, priority |-> calculateProjectPriority(data, registry)]

Before_TiesGoFirst(a, b) ==
    IF b.priority # a.priority
    THEN b.priority - a.priority < 0
    ELSE a.submissionDate - b.submissionDate <= 0

\* The comparator of sortProjectQueue is negative: a sorts before b.
Before(a, b) ==
    IF b.priority # a.priority
    THEN b.priority - a.priority < 0
    ELSE a.submissionDate - b.submissionDate < 0

\* Array.prototype.sort is stable: an element goes behind the elements it does not
\* sort before.
RECURSIVE Insert(_, _)
Insert(sorted, x) ==
    IF sorted = << >> THEN <<x>>
    ELSE IF Before(x, Head(sorted)) THEN <<x>> \o sorted
    ELSE <<Head(sorted)>> \o Insert(Tail(sorted), x)

sortProjectQueue_KeepsArrivalOrder(queue) == queue

RECURSIVE sortProjectQueue(_)
sortProjectQueue(queue) ==
    IF queue = << >> THEN << >>
    ELSE Insert(sortProjectQueue(SubSeq(queue, 1, Len(queue) - 1)), queue[Len(queue)])

\* this.projectQueue.findIndex(p => p.id === id) + 1
QueuePosition(queue, id) ==
    IF \E i \in 1..Len(queue) : queue[i].id = id
    THEN CHOOSE i \in 1..Len(queue) :
            queue[i].id = id /\ \A j \in 1..(i - 1) : queue[j].id # id
    ELSE 0

\* estimateProcessingTime, in hours
estimateProcessingTime(queue, id) ==
    24 + (IF QueuePosition(queue, id) > 1 THEN (QueuePosition(queue, id) - 1) * 6 ELSE 0)

\* statistics of getPublicAllocationReport
getPublicAllocationReport(registry, queue) ==
    [verifiedNonprofits |-> Cardinality({ i \in DOMAIN registry : Verified(registry, i) }),
     activeProjects |-> Len(queue),
     totalAllocations |-> 0]

NoRegistration == RegistrationData({}, "", "", 0)

NoProject == ProjectData(0, {}, 0, 0, FALSE, FALSE, FALSE, FALSE)

NoAllocLast ==
    [op |-> "none", outcome |-> "none", reason |-> "", id |-> 0,
     registration |-> NoRegistration, project |-> NoProject,
     priority |-> 0, queuePosition |-> 0, estimatedProcessing |-> 0,
     report |-> getPublicAllocationReport(<< >>, << >>)]

\* req.body as express.json() hands it to the route.
ParseRegistration(body) ==
    IF body = REGISTRATION_BODY THEN WellFormedRegistration ELSE NoRegistration

\* registerNonprofit(data): the id is generated first, then the data is validated,
\* and a valid registration is stored as pending_verification.
RegisterNonprofit(data) ==
    LET id == allocOps + 1
        error == validateNonprofitRegistration(data)
    IN  /\ allocOps' = id
        /\ nonprofitRegistry' =
              IF error = "" THEN registerNonprofit(nonprofitRegistry, id, data, now)
              ELSE nonprofitRegistry
        /\ allocLast' = [NoAllocLast EXCEPT
                            !.op = "registerNonprofit", !.id = id, !.registration = data,
                            !.outcome = IF error = "" THEN "ok" ELSE "error",
                            !.reason = error]
        /\ UNCHANGED <<projectQueue, submitted>>

\* The review announced by registerNonprofit (nextSteps) is made outside this
\* code; its outcome is the status validateProjectSubmission reads.
ReviewNonprofit(id) ==
    /\ id \in DOMAIN nonprofitRegistry
    /\ nonprofitRegistry[id].status = "pending_verification"
    /\ nonprofitRegistry' = [nonprofitRegistry EXCEPT ![id].status = "verified"]
    /\ allocLast' = [NoAllocLast EXCEPT !.op = "review", !.id = id, !.outcome = "ok"]
    /\ UNCHANGED <<projectQueue, allocOps, submitted>>

\* submitProject(data) at time t: the id is generated, the data validated, the
\* project built with its priority, pushed and the queue sorted.
SubmitProject(data, t) ==
    LET id == allocOps + 1
        error == validateProjectSubmission(data, nonprofitRegistry)
        project == NewProject(id, data, nonprofitRegistry, t)
        queue == sortProjectQueue(Append(projectQueue, project))
    IN  /\ allocOps' = id
        /\ UNCHANGED nonprofitRegistry
        /\ IF error = ""
           THEN /\ projectQueue' = queue
                /\ submitted' = [i \in DOMAIN submitted \cup {id} |->
                                    IF i = id
                                    THEN calculateProjectPriority(data, nonprofitRegistry)
                                    ELSE submitted[i]]
                /\ allocLast' = [NoAllocLast EXCEPT
                                    !.op = "submitProject", !.id = id, !.project = data,
                                    !.outcome = "ok", !.priority = project.priority,
                                    !.queuePosition = QueuePosition(queue, id),
                                    !.estimatedProcessing = estimateProcessingTime(queue, id)]
           ELSE /\ UNCHANGED <<projectQueue, submitted>>
                /\ allocLast' = [NoAllocLast EXCEPT
                                    !.op = "submitProject", !.id = id, !.project = data,
                                    !.outcome = "error", !.reason = error]

\* getPublicAllocationReport()
PublicAllocationReport ==
    /\ allocOps' = allocOps + 1
    /\ allocLast' = [NoAllocLast EXCEPT
                        !.op = "getPublicAllocationReport", !.outcome = "ok",
                        !.report = getPublicAllocationReport(nonprofitRegistry, projectQueue)]
    /\ UNCHANGED <<nonprofitRegistry, projectQueue, submitted>>

----------------------------------------------------------------------------
(* Transparency logging: sanitizeForTransparency *)

\* A JSON value: t is its type, s the string of a string value, e the entries
\* <<key, value>> of an object or of an array (Object.entries gives an array the
\* keys "0", "1", ...).
Str(x) == [t |-> "string", s |-> x, e |-> << >>]

Null == [t |-> "null", s |-> "", e |-> << >>]

Obj(entries) == [t |-> "object", s |-> "", e |-> entries]

IndexKey(i) == CASE i = 1 -> "0" [] i = 2 -> "1" [] OTHER -> "2"

Arr(items) ==
    [t |-> "array", s |-> "", e |-> [i \in 1..Len(items) |-> <<IndexKey(i), items[i]>>]]

sensitiveFields ==
    {"password", "token", "secret", "key", "credential", "ssn", "taxid",
     "bankaccount", "creditcard", "personal", "private", "confidential"}

\* typeof value === 'object' && value !== null
IsObject(value) == value.t \in {"object", "array"}

\* The result is built as a plain object ({}) whatever the input object is.
RECURSIVE sanitizeForTransparency(_)
sanitizeForTransparency(data) ==
    IF ~IsObject(data) THEN data
    ELSE Obj([i \in 1..Len(data.e) |->
                <<data.e[i][1],
                  IF sensitiveFields \cap Occurs(data.e[i][1]) # {} THEN Str("[REDACTED_FOR_PRIVACY]")
                  ELSE IF IsObject(data.e[i][2]) THEN sanitizeForTransparency(data.e[i][2])
                  ELSE data.e[i][2]>>])

\* The data the function is applied to: strings, null, objects and arrays, nested
\* up to three deep, under plain and under sensitive keys.
Leaves == {Str("x"), Null}

Nested ==
    Leaves \cup {Obj(<< >>), Arr(<<Str("x"), Null>>)}
        \cup { Obj(<< <<k, v>> >>) : k \in {"name", "password", "apiKey"}, v \in Leaves }
        \cup { Arr(<<v>>) : v \in Leaves }

SanitizeInputs ==
    Nested
        \cup { Obj(<< <<k, v>> >>) : k \in {"name", "password"}, v \in Nested }
        \cup { Arr(<<v>>) : v \in Nested }
        \cup { Obj(<< <<"name", Obj(<< <<"name", v>> >>)>>, <<"password", Str("x")>> >>) :
                 v \in Nested }

NoSanitizeCall == [data |-> Null, calls |-> 0, result |-> Null, again |-> Null]

\* sanitizeForTransparency(data), as logIncomingRequest calls it on a body.
Sanitize ==
    /\ sanitizeCall.calls = 0
    /\ sanitizeCall' = [sanitizeCall EXCEPT
                           !.calls = 1,
                           !.result = sanitizeForTransparency(sanitizeCall.data)]

\* The function applied to its own result.
SanitizeAgain ==
    /\ sanitizeCall.calls = 1
    /\ sanitizeCall' = [sanitizeCall EXCEPT
                           !.calls = 2,
                           !.again = sanitizeForTransparency(sanitizeCall.result)]

----------------------------------------------------------------------------
(* The server: one request through the middleware chain *)

\* req.body as express.json() hands it to the routes: {} when nothing was sent.
ParseReport(body) ==
    IF body = REPORT_BODY THEN ReportData(TRUE, "access log", "10.0.0.2")
    ELSE ReportData(TRUE, "", "absent")

ParseProject(body) ==
    IF body = PROJECT_BODY
    THEN ProjectData(0, {"nonprofitId", "projectName", "description", "publicBenefitGoals"},
                     9, 1, FALSE, FALSE, FALSE, FALSE)
    ELSE NoProject

\* The routes of setupRoutes the requests of this model can reach: a route that
\* catches an Error answers 400.
RouteStatus(req) ==
    IF req.method = "GET" /\ req.path = "/" THEN 200
    ELSE IF req.method = "POST" /\ req.path = "/nonprofit/register"
    THEN (IF validateNonprofitRegistration(ParseRegistration(req.body)) = ""
          THEN 200 ELSE 400)
    ELSE IF req.method = "POST" /\ req.path = "/projects/submit"
    THEN (IF validateProjectSubmission(ParseProject(req.body), nonprofitRegistry) = ""
          THEN 200 ELSE 400)
    ELSE IF req.method = "POST" /\ req.path = "/report-violation"
    THEN (IF reportViolation(ParseReport(req.body), violationReports, cpActivity, 0, 0).threw
          THEN 400 ELSE 200)
    ELSE 404

\* suspiciousActivity after the route the request reaches at time t, activity
\* being what monitorUsage left.
RouteActivity(req, activity, t) ==
    IF req.method = "POST" /\ req.path = "/report-violation"
    THEN reportViolation(ParseReport(req.body), violationReports, activity,
                         reportLast.calls + 1, t).activity
    ELSE activity

\* What the route the request reaches at time t does to the CharitableAllocation
\* and to the violation reports.
Route(req, t) ==
    IF req.method = "POST" /\ req.path = "/nonprofit/register"
    THEN RegisterNonprofit(ParseRegistration(req.body)) /\ UNCHANGED reportVars
    ELSE IF req.method = "POST" /\ req.path = "/projects/submit"
    THEN SubmitProject(ParseProject(req.body), t) /\ UNCHANGED reportVars
    ELSE IF req.method = "POST" /\ req.path = "/report-violation"
    THEN /\ ReportViolationCall(ParseReport(req.body),
                                monitorUsage(req, cpActivity, blockedEntities, t).activity, t)
         /\ UNCHANGED allocVars
    ELSE UNCHANGED <<allocVars, reportVars>>

ResellingCurl(req) == req.ua = "curl/7.0" /\ req.purpose = "reselling"

NoHistory ==
    [streak |-> 0, at |-> 0, seen |-> 0, folds |-> 0, level |-> "NONE", violated |-> FALSE]

\* What is remembered of a source after its request req arrived at time t:
\*   streak    how many requests with user-agent curl/7.0 and X-Purpose: reselling
\*             it has just sent, each within a second of the one before (up to 3);
\*   seen      when its latest request reached bot detection (0: never);
\*   folds     how many of its requests reached bot detection since its activity
\*             record was created: recorded tells whether it had one;
\*   level     the escalation level monitorUsage applied to its latest scored request;
\*   violated  whether one of its requests reached the violation threshold.
Remember(h, req, t, classified, scored, level, violates, recorded) ==
    [streak |-> IF ~ResellingCurl(req) THEN 0
                ELSE IF h.streak > 0 /\ t - h.at < RapidWindow
                     THEN (IF h.streak < 3 THEN h.streak + 1 ELSE 3)
                     ELSE 1,
     at |-> IF ResellingCurl(req) THEN t ELSE 0,
     seen |-> IF classified THEN t ELSE h.seen,
     folds |-> IF ~classified THEN h.folds ELSE IF recorded THEN h.folds + 1 ELSE 1,
     level |-> IF scored THEN level ELSE h.level,
     violated |-> h.violated \/ (scored /\ violates)]

NoLast ==
    [req |-> NoRequest, outcome |-> "none", status |-> 0,
     classified |-> FALSE, rapid |-> FALSE, isBot |-> FALSE,
     confidence |-> [num |-> 1, den |-> 2], botScore |-> 0, humanScore |-> 0,
     botIndicators |-> {},
     scored |-> FALSE, commercialScore |-> 0, commIndicators |-> {}, level |-> "NONE",
     nonprofit |-> NoNonprofit,
     before |-> NoHistory]

\* The components as initializeComponents constructs them.
Components ==
    /\ now = StartTime
    /\ handled = 0
    /\ botActivity = << >>
    /\ cpActivity = << >>
    /\ blockedEntities = {}
    /\ hist = [ip \in IPs |-> NoHistory]
    /\ last = NoLast
    /\ nonprofitRegistry = << >>
    /\ projectQueue = << >>
    /\ allocOps = 0
    /\ submitted = << >>
    /\ allocLast = NoAllocLast
    /\ violationReports = << >>
    /\ reportLast = NoReportLast

\* The server built from the configuration of the repository.
Init ==
    /\ Components
    /\ config = charitableConfig
    /\ server = Listening
    /\ sanitizeCall = NoSanitizeCall

\* The request is answered by a middleware ahead of bot detection.
Rejected(req, t, outcome, status) ==
    /\ UNCHANGED <<botActivity, cpActivity, blockedEntities>>
    /\ hist' = [hist EXCEPT ![req.ip] = Remember(@, req, t, FALSE, FALSE, "NONE", FALSE, FALSE)]
    /\ last' = [NoLast EXCEPT !.req = req, !.outcome = outcome, !.status = status,
                              !.before = hist[req.ip]]

\* The request reaches monitorUsage, which does m.
Monitored(req, t, seen, m) ==
    /\ cpActivity' = IF m.ending = "next" THEN RouteActivity(req, m.activity, t)
                       ELSE m.activity
    /\ blockedEntities' = m.blocked
    /\ hist' = [hist EXCEPT ![req.ip] =
                    Remember(@, req, t, TRUE, TRUE, m.level, m.analysis.violatesLicense,
                             req.ip \in DOMAIN botActivity)]
    /\ last' = [seen EXCEPT
                  !.scored = TRUE,
                  !.commercialScore = m.analysis.commercialScore,
                  !.commIndicators = m.analysis.indicators,
                  !.level = m.level,
                  !.outcome = CASE m.ending = "next" -> "route"
                                [] m.ending = "blocked" -> "blocked"
                                [] OTHER -> "error",
                  !.status = CASE m.ending = "next" -> RouteStatus(req)
                               [] m.ending = "blocked" -> 403
                               [] OTHER -> 500]

\* The request reaches bot detection (app.use of analyzeTraffic, then monitorUsage).
Classified(req, t, clean) ==
    LET p == performTrafficAnalysis(req, botActivity, t, clean)
        a == p.analysis
        seen == [NoLast EXCEPT
                    !.req = req, !.before = hist[req.ip],
                    !.classified = TRUE, !.nonprofit = nonprofitContexts[req],
                    !.rapid = RapidRequest(ActivityOf(botActivity, req.ip), t),
                    !.isBot = a.isBot, !.confidence = a.confidence,
                    !.botScore = a.botScore, !.humanScore = a.humanScore,
                    !.botIndicators = a.indicators]
    IN  /\ botActivity' = p.activity
        /\ IF analyzeTraffic(a, req)
           THEN /\ UNCHANGED <<cpActivity, blockedEntities>>
                /\ hist' = [hist EXCEPT ![req.ip] =
                                Remember(@, req, t, TRUE, FALSE, "NONE", FALSE,
                                         req.ip \in DOMAIN botActivity)]
                /\ last' = [seen EXCEPT !.outcome = "redirected", !.status = 200]
           ELSE Monitored(req, t, seen, monitorUsage(req, cpActivity, blockedEntities, t))

\* A request arrives d milliseconds after the previous one.
HandleRequest(req, d, clean) ==
    /\ handled' = handled + 1
    /\ now' = now + d
    /\ IF ethicalStatus[req] # 0
       THEN Rejected(req, now + d, "rejected_ethical", ethicalStatus[req])
       ELSE IF nonprofitStatus[req] # 0
       THEN Rejected(req, now + d, "rejected_nonprofit", nonprofitStatus[req])
       ELSE Classified(req, now + d, clean)
    /\ IF last'.outcome = "route" THEN Route(req, now + d)
       ELSE UNCHANGED <<allocVars, reportVars>>
    /\ UNCHANGED <<config, server, sanitizeCall>>

Next ==
    /\ handled < MaxRequests
    /\ \E req \in Requests, d \in Deltas, clean \in BOOLEAN : HandleRequest(req, d, clean)

Spec == Init /\ [][Next]_vars

\* The server under requests of one command line client only.
CurlNext ==
    /\ handled < MaxCurlRequests
    /\ \E req \in CurlRequests, d \in Deltas, clean \in BOOLEAN :
          HandleRequest(req, d, clean)

CurlSpec == Init /\ [][CurlNext]_vars

\* Milliseconds between two requests around the idle limit of cleanOldActivity.
SweepDeltas == {500, 86400000, 86400001}

\* The server under one browser request per source, up to a day apart.
SweepNext ==
    /\ handled < MaxSweepRequests
    /\ \E req \in SweepRequests, d \in SweepDeltas, clean \in BOOLEAN :
          HandleRequest(req, d, clean)

SweepSpec == Init /\ [][SweepNext]_vars

----------------------------------------------------------------------------
(* The CharitableAllocation under direct calls *)

\* Milliseconds between two calls: the same millisecond, or a later one.
SubmitDeltas == {0, 1}

AllocNext ==
    /\ allocOps < MaxAllocOps
    /\ \/ /\ \E data \in RegistrationInputs : RegisterNonprofit(data)
          /\ UNCHANGED now
       \/ /\ \E id \in DOMAIN nonprofitRegistry : ReviewNonprofit(id)
          /\ UNCHANGED now
       \/ \E d \in SubmitDeltas :
             /\ now' = now + d
             /\ \E data \in UnregisteredProjects
                              \cup UNION { ProjectInputs(id) : id \in DOMAIN nonprofitRegistry } :
                   SubmitProject(data, now + d)
       \/ /\ PublicAllocationReport
          /\ UNCHANGED now
    /\ UNCHANGED <<handled, botActivity, cpActivity, blockedEntities, hist, last>>
    /\ UNCHANGED <<config, server, violationReports, reportLast, sanitizeCall>>

AllocSpec == Init /\ [][AllocNext]_vars

\* The CharitableAllocation under calls of the methods of this code only: no
\* review changes the status of a registration.
CodeAllocNext ==
    /\ allocOps < MaxCodeAllocOps
    /\ \/ /\ \E data \in RegistrationInputs : RegisterNonprofit(data)
          /\ UNCHANGED now
       \/ \E d \in SubmitDeltas :
             /\ now' = now + d
             /\ \E data \in UnregisteredProjects
                              \cup UNION { ProjectInputs(id) : id \in DOMAIN nonprofitRegistry } :
                   SubmitProject(data, now + d)
       \/ /\ PublicAllocationReport
          /\ UNCHANGED now
    /\ UNCHANGED <<handled, botActivity, cpActivity, blockedEntities, hist, last>>
    /\ UNCHANGED <<config, server, violationReports, reportLast, sanitizeCall>>

CodeAllocSpec == Init /\ [][CodeAllocNext]_vars

----------------------------------------------------------------------------
(* The construction of the server from any configuration *)

ConfigInit ==
    /\ Components
    /\ config \in Configs
    /\ server = Constructing
    /\ sanitizeCall = NoSanitizeCall

ConfigNext ==
    /\ ValidateCharitableSetup
    /\ UNCHANGED <<pipelineVars, allocVars, reportVars, sanitizeCall>>

ConfigSpec == ConfigInit /\ [][ConfigNext]_vars

----------------------------------------------------------------------------
(* The server with and without ethical filtering *)

FilterRequests == CrawlerRequests \cup ToolRequests \cup SweepRequests

FilterInit ==
    /\ Components
    /\ config \in { [charitableConfig EXCEPT !.ethicalFiltering = f] : f \in BOOLEAN }
    /\ server = Listening
    /\ sanitizeCall = NoSanitizeCall

FilterNext ==
    /\ handled < MaxFilterRequests
    /\ \E req \in FilterRequests, d \in Deltas, clean \in BOOLEAN :
          HandleRequest(req, d, clean)

FilterSpec == FilterInit /\ [][FilterNext]_vars

----------------------------------------------------------------------------
(* The server under violation reports and project submissions *)

ReportNext ==
    /\ handled < MaxReportRequests
    /\ \E req \in ReportRequests \cup SweepRequests, d \in Deltas, clean \in BOOLEAN :
          HandleRequest(req, d, clean)

ReportSpec == Init /\ [][ReportNext]_vars

CredentialNext ==
    /\ handled < MaxCredentialRequests
    /\ \E req \in SubmitRequests, d \in Deltas, clean \in BOOLEAN :
          HandleRequest(req, d, clean)

CredentialSpec == Init /\ [][CredentialNext]_vars

----------------------------------------------------------------------------
(* The nonprofit verification middleware called on its own *)

\* nonprofitVerification(config)(req, res, next)
VerifyNonprofit(req) ==
    /\ handled' = handled + 1
    /\ last' = [NoLast EXCEPT
                   !.req = req,
                   !.outcome = IF nonprofitVerification(req) = 0
                               THEN "next" ELSE "rejected_nonprofit",
                   !.status = nonprofitVerification(req),
                   !.nonprofit = NonprofitContext(req)]
    /\ UNCHANGED <<now, botActivity, cpActivity, blockedEntities, hist>>
    /\ UNCHANGED <<allocVars, reportVars, config, server, sanitizeCall>>

VerifyNext ==
    /\ handled < MaxVerifyRequests
    /\ \E req \in CredentialRequests : VerifyNonprofit(req)

VerifySpec == Init /\ [][VerifyNext]_vars

----------------------------------------------------------------------------
(* The CommercialProtection under monitored requests and direct reports *)

\* Browser requests whose referer carries commercial indicators, of two sources.
ProtectionRequests ==
    { r \in ReferredRequests : r.method = "GET" }
        \cup { r \in OtherRequests : r.ua = "Mozilla/5.0 ... Chrome/119" }

ReportInputs ==
    { NoReportData, ReportData(TRUE, "", "absent"), ReportData(TRUE, "access log", "absent"),
      ReportData(TRUE, "access log", "unlocated"),
      ReportData(TRUE, "access log", "10.0.0.1"),
      ReportData(TRUE, "", "10.0.0.1") }

ProtectionNext ==
    /\ handled + reportLast.calls < MaxProtectionOps
    /\ \/ \E req \in ProtectionRequests, d \in {500, 1000} : HandleRequest(req, d, FALSE)
       \/ /\ \E data \in ReportInputs : ReportViolation(data)
          /\ UNCHANGED <<now, handled, botActivity, blockedEntities, hist, last>>
          /\ UNCHANGED <<allocVars, config, server, sanitizeCall>>

ProtectionSpec == Init /\ [][ProtectionNext]_vars

----------------------------------------------------------------------------
(* sanitizeForTransparency applied to any data *)

SanitizeInit ==
    /\ Components
    /\ config = charitableConfig
    /\ server = Listening
    /\ sanitizeCall \in { [NoSanitizeCall EXCEPT !.data = d] : d \in SanitizeInputs }

SanitizeNext ==
    /\ Sanitize \/ SanitizeAgain
    /\ UNCHANGED <<pipelineVars, allocVars, reportVars, config, server>>

SanitizeSpec == SanitizeInit /\ [][SanitizeNext]_vars

----------------------------------------------------------------------------
(* Properties *)

Allowlisted(req) == (legitimateCrawlers \cup monitoringServices) \cap Occurs(req.ua) # {}

\* C1 as stated: a request whose user-agent names an allowlisted crawler or
\* monitoring service is classified isBot = false and gets commercialScore = 0,
\* whatever its other headers and the history of its source.
C1_AllowlistShortCircuits ==
    (Allowlisted(last.req) /\ last.classified)
        => (~last.isBot /\ last.scored /\ last.commercialScore = 0)

\* C1 amended: a request whose user-agent names an allowlisted crawler or monitoring
\* service is never redirected by analyzeTraffic, whatever its other headers and the
\* history of its source: it is passed on to monitorUsage.  The allowlist is read by
\* shouldRedirect after the rule pass: isBot and commercialScore stay what the rules
\* computed.
C1_AllowlistNeverRedirected ==
    (Allowlisted(last.req) /\ last.classified)
        => /\ last.outcome # "redirected"
           /\ last.scored
           /\ last.isBot = IsBot(last.botScore, last.humanScore)
           /\ last.commercialScore = CommercialScore(last.req, FALSE)

C1_Witness ==
    /\ Allowlisted(last.req)
    /\ last.isBot /\ Above(last.confidence, 7, 10)
    /\ last.scored /\ last.commercialScore > 0

\* C2: a request whose commercialScore reaches the violation threshold is answered
\* with the violation response (403), is not passed on, and its source is added to
\* blockedEntities.
C2_ViolationBlocked ==
    (last.scored /\ last.commercialScore >= ViolationThreshold)
        => /\ last.status = 403
           /\ last.outcome = "blocked"
           /\ last.req.ip \in blockedEntities

BenignCurl(req) ==
    req.ua = "curl/7.0" /\ req.purpose = "" /\ CommercialIndicators(req, FALSE) = {}

\* C3 as stated: after three requests of a source with user-agent curl/7.0 and
\* X-Purpose: reselling, each within a second of the one before, the fourth request
\* of that source is answered BLOCK although it carries no commercial indicator.
C3_FourthBlocked ==
    (last.before.streak >= 3 /\ BenignCurl(last.req))
        => (last.outcome = "blocked" /\ last.status = 403)

\* C3 amended: each of the three requests is rejected by ethical validation with 403
\* before it is classified (its X-Purpose value holds the keyword "sell"), and the
\* fourth request, which carries no commercial indicator, is not answered BLOCK:
\* when it reaches bot detection it is redirected (200) and never scored, and its
\* source is neither blocked nor recorded by the commercial protection.
C3_FourthRedirected ==
    /\ ResellingCurl(last.req)
          => (last.outcome = "rejected_ethical" /\ last.status = 403 /\ ~last.classified)
    /\ (last.before.streak >= 3 /\ BenignCurl(last.req))
          => /\ last.outcome # "blocked"
             /\ last.classified => (last.outcome = "redirected" /\ last.status = 200)
             /\ ~last.scored
             /\ last.req.ip \notin blockedEntities
             /\ last.req.ip \notin DOMAIN cpActivity

C3_Witness ==
    /\ last.before.streak >= 3
    /\ BenignCurl(last.req)
    /\ last.outcome = "redirected"

\* C4: once a source is BLOCKED (one of its requests reached the violation
\* threshold, which puts its address in blockedEntities), every later request of
\* that source is rejected on a fast path, without being scored again.
C4_BlockedFastPath ==
    last.before.violated
        => /\ last.req.ip \in blockedEntities
           /\ last.outcome = "blocked"
           /\ ~last.scored

LevelRank(level) ==
    CASE level = "BLOCKED" -> 2
      [] level = "MONITORED" -> 1
      [] OTHER -> 0

C6_OnlyBotsScored ==
    /\ (last.classified /\ ~last.isBot) => (~last.scored /\ last.outcome = "route")
    /\ last.scored => last.isBot

\* C6 amended: monitorUsage scores exactly the requests analyzeTraffic does not
\* redirect: every request classified as not a bot is scored, and a request
\* classified as a bot is scored unless it is redirected, which happens when its
\* confidence is above 0.7 and its user-agent is not allowlisted.
C6_ScoredIffNotRedirected ==
    last.classified
        => /\ last.scored <=> last.outcome # "redirected"
           /\ ~last.isBot => last.scored
           /\ last.outcome = "redirected"
                <=> (last.isBot /\ Above(last.confidence, 7, 10) /\ ~Allowlisted(last.req))

C6_Witness ==
    /\ last.classified
    /\ ~last.isBot
    /\ last.scored
    /\ last.commercialScore >= SuspiciousThreshold

\* C7: no classification or monitoring step throws: analyzeTraffic and monitorUsage
\* end in a response or in a call of the next handler, also for the requests with
\* commercialScore in [4,6).
C7_NeverThrows == last.outcome # "error"

\* C8: a request with the browser user-agent Mozilla/5.0 ... Chrome/119 and no
\* commercial indicator that reaches the classifier is classified isBot = false and
\* is allowed, whatever its other headers, its method and the history of its source.
C8_BrowserAllowed ==
    (last.classified /\ last.req.ua = "Mozilla/5.0 ... Chrome/119" /\ CommercialIndicators(last.req, FALSE) = {})
        => /\ ~last.isBot
           /\ last.outcome = "route"
           /\ last.level = "CLEAN"

C8_Witness ==
    /\ last.classified /\ last.req.ua = "Mozilla/5.0 ... Chrome/119"
    /\ CommercialIndicators(last.req, FALSE) = {}
    /\ last.rapid /\ last.botScore = 5
    /\ last.before.level = "MONITORED"

Max(a, b) == IF a >= b THEN a ELSE b

\* The ratio rule on every pair of scores up to MaxScore.
RatioRule ==
    /\ \A b \in 0..MaxScore, h \in 0..MaxScore :
          /\ IsBot(b, h) <=> 10 * b > 6 * Max(b + h, 1)
          /\ IsBot(b, h) <=> 2 * b > 3 * h
    /\ ~IsBot(0, 0)

\* C9: isBot is true exactly when botScore / max(botScore + humanScore, 1) > 0.6,
\* that is when 2 * botScore > 3 * humanScore; it is false when both scores are 0.
C9_IsBotRatio ==
    /\ RatioRule
    /\ last.classified => (last.isBot <=> 2 * last.botScore > 3 * last.humanScore)

C9_Witness ==
    /\ last.classified
    /\ last.botScore = 3 /\ last.humanScore = 2
    /\ ~last.isBot

\* C10 as stated: two requests with identical facts receive identical verdicts
\* whatever was processed before, and classifying a request changes no state.
C10_PureClassification ==
    [][(last.classified /\ last'.classified /\ last'.req = last.req)
          => /\ last'.botScore = last.botScore
             /\ last'.isBot = last.isBot
             /\ last'.botIndicators = last.botIndicators
             /\ last'.scored = last.scored
             /\ last'.commercialScore = last.commercialScore
             /\ botActivity' = botActivity]_vars

\* C10 amended: the verdict is a function of the request, the rule tables and one
\* fact of history: whether the request comes less than a second after the previous
\* classified request of its source, which adds 2 to botScore and the indicator
\* rapid_requests; the commercial score and flags depend on the request alone.
\* Classifying a request updates the activity record of its source.
C10_VerdictFromRequestAndHistory ==
    last.classified
        => /\ last.rapid <=> (now - last.before.seen < RapidWindow)
           /\ last.botScore = BotScore(last.req, FALSE) + (IF last.rapid THEN 2 ELSE 0)
           /\ last.botIndicators =
                 BotIndicators(last.req, FALSE)
                     \cup (IF last.rapid THEN {<<"flag", "rapid_requests">>} ELSE {})
           /\ last.humanScore = HumanScore(last.req)
           /\ last.isBot = IsBot(last.botScore, last.humanScore)
           /\ last.scored =>
                 /\ last.commercialScore = CommercialScore(last.req, FALSE)
                 /\ last.commIndicators = CommercialIndicators(last.req, FALSE)
           /\ last.req.ip \in DOMAIN botActivity
           /\ botActivity[last.req.ip].lastSeen = now
           /\ botActivity[last.req.ip].requests >= 1

C10_Witness ==
    /\ last.classified
    /\ last.rapid
    /\ last.botScore = BotScore(last.req, FALSE) + 2
    /\ botActivity[last.req.ip].requests = 2

Flags(indicators) == { i \in indicators : i[1] = "flag" }

\* C11 as stated: a request that lacks the User-Agent, Accept, Accept-Language or
\* Referer header gets no score contribution from the absent field, in the bot
\* score and in the commercial score, and no exception is raised.
C11_AbsentFieldScoresNothing ==
    last.classified
        => /\ last.req.ua = "" =>
                 { i \in last.botIndicators \cup last.commIndicators : i[1] # "flag" } = {}
           /\ last.req.accept = "" =>
                 <<"flag", "generic_accept_header">> \notin last.botIndicators
           /\ last.req.lang = "" =>
                 <<"flag", "missing_accept_language">> \notin last.botIndicators
           /\ last.req.referer = "" =>
                 /\ <<"flag", "missing_referer">> \notin last.botIndicators
                 /\ { i \in last.commIndicators : i[1] = "referer" } = {}
           /\ (last.req.ua = "" /\ last.req.accept = "" /\ last.req.lang = ""
                    /\ last.req.referer = "")
                 => (last.botScore = (IF last.rapid THEN 2 ELSE 0) /\ last.outcome # "error")

\* C11 amended: an absent User-Agent or Referer is read as the empty string, matches
\* no pattern and adds nothing to the commercial score; an absent User-Agent adds
\* nothing to the bot score or the human score either.  The bot score does count
\* absent headers: an absent Accept adds 1 (generic_accept_header), an absent
\* Accept-Language adds 1 (missing_accept_language) and an absent Referer on a GET
\* adds 1 (missing_referer).  No absent header raises an exception: a request
\* ends in an error only with a commercialScore of 2 or more, which no absent
\* header contributes to.
C11_AbsentHeadersCountAsBotSignals ==
    last.classified
        => /\ last.req.ua = "" =>
                 /\ { i \in last.botIndicators \cup last.commIndicators : i[1] # "flag" } = {}
                 /\ last.humanScore = 0
                 /\ <<"flag", "automation_tool">> \notin last.commIndicators
                 /\ last.botScore = Cardinality(Flags(last.botIndicators))
                                        + (IF last.rapid THEN 1 ELSE 0)
           /\ last.req.accept = "" =>
                 <<"flag", "generic_accept_header">> \in last.botIndicators
           /\ last.req.lang = "" =>
                 <<"flag", "missing_accept_language">> \in last.botIndicators
           /\ last.req.referer = "" =>
                 /\ <<"flag", "missing_referer">> \in last.botIndicators
                        <=> last.req.method = "GET"
                 /\ { i \in last.commIndicators : i[1] = "referer" } = {}
                 /\ <<"flag", "business_domain_referer">> \notin last.commIndicators
           /\ (last.req.ua = "" /\ last.req.accept = "" /\ last.req.lang = ""
                    /\ last.req.referer = "" /\ last.req.method = "GET")
                 => last.botScore = 3 + (IF last.rapid THEN 2 ELSE 0)
           /\ (last.scored /\ last.req.ua = "" /\ last.req.referer = ""
                    /\ ~(last.req.method = "POST" /\ Includes(last.req.path, "api")))
                 => last.commercialScore = 0
           /\ last.outcome = "error" => last.commercialScore >= MonitoringThreshold

C11_Witness ==
    /\ last.classified
    /\ last.req.ua = "" /\ last.req.accept = "" /\ last.req.lang = ""
    /\ last.req.referer = ""
    /\ last.botScore = 5

\* C12: after any sequence of project submissions, successful or failed,
\* projectQueue is sorted by priority descending and, among equal priorities, by
\* submission time ascending.
C12_QueueSorted ==
    \A i \in 1..Len(projectQueue), j \in 1..Len(projectQueue) :
        i < j => \/ projectQueue[i].priority > projectQueue[j].priority
                 \/ /\ projectQueue[i].priority = projectQueue[j].priority
                    /\ projectQueue[i].submissionDate <= projectQueue[j].submissionDate

C12_Witness ==
    /\ Len(projectQueue) = 3
    /\ allocLast.op = "submitProject" /\ allocLast.outcome = "ok"
    /\ allocLast.queuePosition = 1
    /\ projectQueue[2].priority = projectQueue[3].priority
    /\ projectQueue[2].submissionDate < projectQueue[3].submissionDate
    /\ \E id \in DOMAIN nonprofitRegistry : ~Verified(nonprofitRegistry, id)

FullProject(data) ==
    /\ data.benefitMatches = BenefitKeywordCount
    /\ data.publicReporting /\ data.impactSharing /\ data.communityUpdates
    /\ ~data.urgent

QueuedPriority(id) ==
    projectQueue[CHOOSE i \in 1..Len(projectQueue) : projectQueue[i].id = id].priority

\* C15 as stated: a submission with full public benefit, verified nonprofit status,
\* full transparency commitment and no urgency, under the configured weights, is
\* stored with priority 0.8.
C15_PriorityPointEight ==
    (allocLast.op = "submitProject" /\ allocLast.outcome = "ok"
        /\ FullProject(allocLast.project))
        => /\ 10 * allocLast.priority = 8 * PriorityUnit
           /\ 10 * QueuedPriority(allocLast.id) = 8 * PriorityUnit

\* C15 amended: such a submission is stored with priority 0.85: to the 0.4, 0.2 and
\* 0.2 of the three factors calculateProjectPriority always adds half of the
\* communitySupport weight, 0.05.
C15_PriorityPointEightFive ==
    (allocLast.op = "submitProject" /\ allocLast.outcome = "ok"
        /\ FullProject(allocLast.project))
        => /\ 100 * allocLast.priority = 85 * PriorityUnit
           /\ 100 * QueuedPriority(allocLast.id) = 85 * PriorityUnit

C15_Witness ==
    /\ allocLast.op = "submitProject" /\ allocLast.outcome = "ok"
    /\ FullProject(allocLast.project)
    /\ Len(projectQueue) >= 2
    /\ allocLast.queuePosition = 2

\* C16: every item in the queue has a priority within [0,1] that equals the value
\* calculated at its own submission; no later operation (further submissions,
\* re-sorting, report generation) changes the priority of a queued item.
C16_PriorityFixedAtSubmission ==
    /\ [](\A i \in 1..Len(projectQueue) :
            /\ projectQueue[i].priority >= 0
            /\ projectQueue[i].priority <= PriorityUnit
            /\ projectQueue[i].id \in DOMAIN submitted
            /\ projectQueue[i].priority = submitted[projectQueue[i].id])
    /\ [][\A i \in 1..Len(projectQueue) :
            \E j \in 1..Len(projectQueue') :
                /\ projectQueue'[j].id = projectQueue[i].id
                /\ projectQueue'[j].priority = projectQueue[i].priority]_vars

C16_Witness ==
    /\ allocLast.op = "getPublicAllocationReport"
    /\ allocLast.report.activeProjects = 3
    /\ projectQueue[1].priority > projectQueue[3].priority
    /\ projectQueue[1].id > projectQueue[3].id

\* C17: submitProject fails with a validation error whenever a required field is
\* absent or the submitter is not a verified nonprofit, and a failed submission
\* inserts nothing: projectQueue and nonprofitRegistry are the same before and
\* after the failed call.
C17_FailedSubmissionInsertsNothing ==
    [][(allocLast'.op = "submitProject" /\ allocOps' # allocOps)
          => /\ (\/ projectRequired \ allocLast'.project.fields # {}
                 \/ ~Verified(nonprofitRegistry, allocLast'.project.nonprofitId))
                   => (allocLast'.outcome = "error" /\ allocLast'.reason # "")
             /\ allocLast'.outcome = "error"
                   => (projectQueue' = projectQueue
                         /\ nonprofitRegistry' = nonprofitRegistry)
             /\ allocLast'.outcome = "ok"
                   => (Len(projectQueue') = Len(projectQueue) + 1
                         /\ allocLast'.queuePosition >= 1)]_vars

C17_Witness ==
    /\ allocLast.op = "submitProject" /\ allocLast.outcome = "error"
    /\ allocLast.project.fields = projectRequired
    /\ allocLast.project.nonprofitId \in DOMAIN nonprofitRegistry
    /\ ~Verified(nonprofitRegistry, allocLast.project.nonprofitId)
    /\ Len(projectQueue) >= 1

\* C18: for a single source, no update of its activity record is lost or applied
\* twice: if n requests of that source have been analyzed since its record was
\* created (and no sweep removed it), the record's request count is n and its
\* lastSeen is the time of the latest analysis.
C18_NoFoldLost ==
    /\ \A ip \in DOMAIN botActivity :
          /\ botActivity[ip].requests = hist[ip].folds
          /\ botActivity[ip].lastSeen = hist[ip].seen
    /\ last.classified =>
          /\ last.req.ip \in DOMAIN botActivity
          /\ botActivity[last.req.ip].lastSeen = now

C18_Witness ==
    \E ip \in DOMAIN botActivity, other \in IPs :
        /\ botActivity[ip].requests = 3
        /\ other # ip
        /\ hist[other].seen > 0
        /\ other \notin DOMAIN botActivity

\* C19: the sweep cleanOldActivity deletes an activity record if and only if its
\* lastSeen is older than the idle limit of 24 hours, and it never deletes the
\* record just updated by the request that triggered it.  The records a request
\* leaves are therefore all the records, or all but the ones older than the limit.
C19_SweepDeletesOnlyIdle ==
    [][(handled' # handled /\ last'.classified)
          => LET ip == last'.req.ip
                 idle == { i \in DOMAIN botActivity \ {ip} :
                             botActivity[i].lastSeen < now' - IdleTTL }
                 deleted == (DOMAIN botActivity \cup {ip}) \ DOMAIN botActivity'
             IN  /\ deleted = {} \/ deleted = idle
                 /\ ip \in DOMAIN botActivity'
                 /\ \A i \in DOMAIN botActivity' \ {ip} :
                       i \in DOMAIN botActivity /\ botActivity'[i] = botActivity[i]]_vars

C19_Witness ==
    \E gone \in IPs, kept \in DOMAIN botActivity :
        /\ hist[gone].seen > 0
        /\ gone \notin DOMAIN botActivity
        /\ kept # last.req.ip
        /\ botActivity[kept].lastSeen = now - IdleTTL
        /\ last.classified
        /\ botActivity[last.req.ip].lastSeen = now

WellFormedRegisterRequest(req) ==
    /\ req.method = "POST" /\ req.path = "/nonprofit/register"
    /\ validateNonprofitRegistration(ParseRegistration(req.body)) = ""
    /\ req.org # ""

\* C20: a well-formed nonprofit registration request (POST /nonprofit/register with
\* all required fields, a valid documentation type, transparencyCommitment = true, a
\* public benefit description of at least 100 characters and an identifying
\* organization header) passes the whole middleware chain, reaches
\* registerNonprofit and is answered with status pending_verification, a registry
\* entry being stored.
C20_RegistrationReachesRegistry ==
    WellFormedRegisterRequest(last.req)
        => /\ last.outcome = "route"
           /\ last.status = 200
           /\ allocLast.op = "registerNonprofit" /\ allocLast.outcome = "ok"
           /\ allocLast.id \in DOMAIN nonprofitRegistry
           /\ nonprofitRegistry[allocLast.id].status = "pending_verification"

\* A violation report as the community sends it: a description with charitable
\* context and no commercial keyword in anything the client wrote.
CommunityReport(req) ==
    /\ req.method = "POST" /\ req.path = "/report-violation" /\ req.body = REPORT_BODY
    /\ charitableKeywords \cap Occurs(req.body) # {}
    /\ commercialKeywords \cap requestText(req) = {}

\* C21: a community violation report (POST /report-violation with a description
\* and charitable context, holding no commercial keyword) passes the middleware
\* chain, reaches reportViolation and is answered with status received, the
\* report being stored in violationReports.
C21_ReportReachesReportViolation ==
    CommunityReport(last.req) =>
        /\ last.outcome = "route" /\ last.status = 200
        /\ reportLast.outcome = "ok"
        /\ reportLast.id \in DOMAIN violationReports

\* A configuration enables a setting the restrictions prohibit.
ProhibitedSetting(c) ==
    \/ c.commercialUse \/ c.monetization \/ c.privateBenefit
    \/ c.competitiveAdvantage \/ c.profitGeneration

\* C22: the validation rejects every configuration that enables a prohibited
\* setting: when commercialUse, monetization, privateBenefit, competitiveAdvantage
\* or profitGeneration is true, or charitableOnly is not true, or a required
\* charitable feature is not true, validateCharitableConfig throws, reporting
\* the violations, and the server does not start; otherwise it returns true.
C22_ProhibitedConfigRejected ==
    server.state # "constructing" =>
        IF \/ ProhibitedSetting(config)
           \/ ~config.charitableOnly
           \/ \E f \in requiredFeatures : ~config[f]
        THEN server.state = "exited" /\ server.violations # {}
        ELSE server.state = "listening"

\* C23: with ethical filtering enabled, analyzeTraffic never redirects a request
\* whose user-agent holds the name of a legitimate search crawler or of a
\* monitoring service, and redirects any other request if and only if isBot is
\* true and confidence > 0.7; with ethical filtering disabled it redirects if and
\* only if isBot is true.  In every case exactly one of the two happens: the
\* redirect response is sent, or the next handler (monitorUsage) is called.
C23_RedirectRule ==
    last.classified =>
        /\ IF config.ethicalFiltering
           THEN IF Allowlisted(last.req)
                THEN last.outcome # "redirected"
                ELSE (last.outcome = "redirected")
                        <=> (last.isBot /\ Above(last.confidence, 7, 10))
           ELSE (last.outcome = "redirected") <=> last.isBot
        /\ (last.outcome = "redirected") <=> ~last.scored

\* Without ethical filtering a search crawler that is a bot with confidence of
\* at most 0.7 has been redirected.
C23_Witness ==
    /\ ~config.ethicalFiltering
    /\ last.classified /\ Allowlisted(last.req)
    /\ last.isBot /\ ~Above(last.confidence, 7, 10)
    /\ last.outcome = "redirected" /\ ~last.scored

\* The queue without the project id.
Without(queue, id) == SelectSeq(queue, LAMBDA p : p.id # id)

\* C24: a new submission never changes the relative order of the items already
\* in the queue, and among items of equal priority an item submitted earlier
\* always stands ahead of one submitted later, also when both carry the same
\* submission timestamp.  (Ids are given in the order of submission.)
C24_StableQueue ==
    /\ [](\A i, j \in 1..Len(projectQueue) :
            (i < j /\ projectQueue[i].priority = projectQueue[j].priority)
                => projectQueue[i].id < projectQueue[j].id)
    /\ [][ IF allocLast'.op = "submitProject" /\ allocLast'.outcome = "ok"
                /\ allocOps' # allocOps
           THEN Without(projectQueue', allocLast'.id) = projectQueue
           ELSE projectQueue' = projectQueue ]_vars

\* A project was queued behind a project of the same priority submitted in the
\* same millisecond, and ahead of a project of lower priority.
C24_Witness ==
    /\ allocLast.op = "submitProject" /\ allocLast.outcome = "ok"
    /\ \E i, j, k \in 1..Len(projectQueue) :
          /\ i < j /\ j < k
          /\ projectQueue[j].id = allocLast.id
          /\ projectQueue[i].priority = projectQueue[j].priority
          /\ projectQueue[i].submissionDate = projectQueue[j].submissionDate
          /\ projectQueue[k].priority < projectQueue[j].priority

\* The path of the request is one of the protected endpoints.
Protected(req) == \E e \in protectedEndpoints : StartsWith(req.path, e)

\* The organization is found in the registry by ID or by name, its status is
\* verified and the token starts with NPT-<its id>- and has 32 characters or more.
Credentialed(req) ==
    \E i \in DOMAIN knownNonprofits :
        /\ \/ knownNonprofits[i].id = req.nonprofitId
           \/ req.org # "" /\ NameIncludes(knownNonprofits[i].name, req.org)
        /\ knownNonprofits[i].status = "verified"
        /\ StartsWith(req.nonprofitToken, expectedTokenPrefix(knownNonprofits[i].id))
        /\ Length(req.nonprofitToken) >= 32

\* C25: for a request to a protected endpoint other than /nonprofit/register the
\* nonprofit verification middleware calls the next handler, with
\* req.nonprofit.verified = true, only if the organization is found in the
\* registry by ID or name, is verified and the token is valid for it; in every
\* other case it answers 401 or 403 and does not call the next handler.
C25_OnlyVerifiedPass ==
    (Protected(last.req) /\ last.req.path # "/nonprofit/register") =>
        IF last.outcome = "next"
        THEN last.nonprofit.verified /\ Credentialed(last.req)
        ELSE last.outcome = "rejected_nonprofit" /\ last.status \in {401, 403}

\* A project submission with the documented credentials of a verified nonprofit
\* and no commercial keyword in anything the client wrote: the path, the values
\* of its headers and the body.
DocumentedSubmission(req) ==
    /\ req.method = "POST" /\ req.path = "/projects/submit"
    /\ req.nonprofitId = "NPR-DEMO-001" /\ req.nonprofitToken = "NPT-NPR-DEMO-001-1730000000000-abcdefghijklmnop"
    /\ commercialKeywords
          \cap (Occurs(req.path) \cup Occurs(req.ua) \cup Occurs(req.accept)
                  \cup Occurs(req.lang) \cup Occurs(req.referer) \cup Occurs(req.purpose)
                  \cup Occurs(req.body) \cup Occurs(req.org)
                  \cup Occurs(req.nonprofitId) \cup Occurs(req.nonprofitToken)) = {}

\* C26: a request of a verified nonprofit to a protected endpoint that carries
\* the documented credentials (X-Nonprofit-ID of a verified organization and a
\* valid X-Nonprofit-Token) and no commercial language passes the whole
\* middleware chain, ethical validation first, then nonprofit verification, and
\* reaches the route handler with req.nonprofit.verified = true.
C26_CredentialedReachesRoute ==
    DocumentedSubmission(last.req) =>
        /\ last.outcome = "route"
        /\ last.nonprofit.verified
        /\ last.nonprofit.organizationId = "NPR-DEMO-001"

\* The data with '[REDACTED_FOR_PRIVACY]' in place of the value of every sensitive
\* key, at every depth, and everything else as it is.
RECURSIVE Redacted(_)
Redacted(data) ==
    IF ~IsObject(data) THEN data
    ELSE [data EXCEPT !.e =
            [i \in 1..Len(data.e) |->
                <<data.e[i][1],
                  IF sensitiveFields \cap Occurs(data.e[i][1]) # {}
                  THEN Str("[REDACTED_FOR_PRIVACY]") ELSE Redacted(data.e[i][2])>>]]

\* C27: the result of sanitizeForTransparency holds '[REDACTED_FOR_PRIVACY]' in
\* place of the value of every key whose lower-cased name contains a sensitive
\* field name, at every nesting depth; the values under the other keys are
\* preserved; and sanitizing the result again returns an equal object.
C27_SanitizeRedactsAndPreserves ==
    /\ sanitizeCall.calls >= 1 => sanitizeCall.result = Redacted(sanitizeCall.data)
    /\ sanitizeCall.calls = 2 => sanitizeCall.again = sanitizeCall.result

\* C28: in every state reachable through registerNonprofit and submitProject,
\* every entry of nonprofitRegistry has status 'pending_verification', every
\* submitProject call fails with 'Project must be submitted by verified
\* nonprofit organization' or with the validation error that comes before it, and
\* projectQueue is empty.
C28_NothingVerified ==
    /\ \A id \in DOMAIN nonprofitRegistry :
          nonprofitRegistry[id].status = "pending_verification"
    /\ allocLast.op = "submitProject" =>
          /\ allocLast.outcome = "error"
          /\ allocLast.reason \in
                {"Missing required project fields",
                 "Project must be submitted by verified nonprofit organization"}
    /\ projectQueue = << >>

\* A registered nonprofit submitted a project with every field, detailed goals
\* and a full transparency plan, and the submission was refused.
C28_Witness ==
    /\ allocLast.op = "submitProject"
    /\ allocLast.project.nonprofitId \in DOMAIN nonprofitRegistry
    /\ allocLast.project.fields = projectRequired
    /\ allocLast.project.goalsLength >= 200
    /\ allocLast.project.publicReporting /\ allocLast.project.impactSharing
    /\ allocLast.outcome = "error"
    /\ allocLast.reason = "Project must be submitted by verified nonprofit organization"
    /\ projectQueue = << >>

\* C29: in every reachable state of CommercialProtection every record stored in
\* suspiciousActivity has the monitoring shape logSuspiciousActivity relies on (a
\* numeric requestCount and an indicators set), whichever of
\* handleSuspiciousActivity, logSuspiciousActivity and autoInvestigate wrote it
\* last; hence logSuspiciousActivity never fails on an existing record and
\* requestCount counts the monitored requests logged for the source.
C29_MonitoringShape ==
    /\ \A ip \in DOMAIN cpActivity :
          /\ cpActivity[ip].kind = "monitoring"
          /\ cpActivity[ip].requestCount >= 1
    /\ ~(last.scored /\ last.level = "CLEAN" /\ last.outcome = "error")

\* C30: reportViolation is all-or-nothing: it either returns a report that is
\* stored in violationReports, with status 'investigating' when evidence is not
\* empty and 'under_investigation' otherwise, or it fails and leaves
\* violationReports and suspiciousActivity unchanged; a report with evidence and
\* no suspectedEntity is not left stored after the call fails.
C30_ReportAllOrNothing ==
    [][ reportLast'.calls # reportLast.calls =>
          \/ /\ reportLast'.outcome = "ok"
             /\ reportLast'.id \in DOMAIN violationReports'
             /\ violationReports'[reportLast'.id].status =
                   IF reportLast'.data.evidence # ""
                   THEN "investigating" ELSE "under_investigation"
          \/ /\ reportLast'.outcome = "error"
             /\ violationReports' = violationReports
             /\ cpActivity' = cpActivity ]_vars

====
